---------------------------- MODULE Spec2Model ----------------------------
(***************************************************************************)
(* Verification model of the child-companion backend:                      *)
(*   - ChapterManager and RoleFactory (agents/chapter_manager.py,          *)
(*     agents/role_factory.py)                                             *)
(*   - the MultiAgent orchestrator graph, WorldAgent.create_world, the     *)
(*     StoryMemoryManager and the POST /chat endpoint                      *)
(*     (agents/multi_agent.py, agents/world_agent.py, memory/mem0.py,      *)
(*     core/memory/mem0.py, api/langgraph_routes.py)                       *)
(* Numbers that are floats in the source (engagement score) are scaled by  *)
(* ScoreScale so that every value the code computes is an integer.          *)
(***************************************************************************)
EXTENDS Integers, Sequences, FiniteSets, TLC

(***************************************************************************)
(* Bounds of the model                                                     *)
(***************************************************************************)
MaxChapters == 1
MaxGoals == 2
MaxRoles == 4
MaxSessions == 1
MaxTicks == 3
MaxFragments == 2
MaxResponses == 3
MaxAgents == 3
MaxFrames == 4
MaxThreads == 2
MaxSampling == 5
MaxDescription == 3
MaxConversations == 3
MaxFactoryRoles == 2
MaxSuffixes == 3
MaxAttempts == 4

Tasks == {"t1", "t2"}
ChapterIds == 1..MaxChapters
UnknownChapter == 0
UnknownRole == 0
UnknownSession == 0
RoleIds == 1..MaxRoles
SessionIds == 1..MaxSessions

(***************************************************************************)
(* ChapterManager: data                                                    *)
(***************************************************************************)
ChapterState == {"planning", "active", "paused", "completed", "archived"}
ChapterType == {"introduction", "adventure", "challenge", "resolution", "conclusion"}

ScoreScale == 600

NoChapter ==
    [state |-> "none", objectives |-> 0, current_step |-> 0, total_steps |-> 0,
     active_roles |-> <<>>, user_engagement_score |-> 0]

\* outcome of the call that returned last
NoResult ==
    [op |-> "none", chapter |-> 0, pre |-> "none", ret |-> "none",
     error |-> "none", verdict |-> "none", unchanged |-> TRUE, role_calls |-> 0,
     chapter_type |-> "none", ngoals |-> 0, agents |-> 0, interact_calls |-> 0,
     role_responses |-> 0]

NoArg == [chapter |-> 0, verdict |-> "none"]

NoPair == [chapter |-> 0, base |-> 0, total |-> 0, fin |-> 0, nsucc |-> 0, delta |-> -1]

VARIABLES
    active_chapters,   \* ChapterManager.active_chapters: chapter id -> Chapter
    next_chapter,      \* number of chapter ids handed out (uuid freshness)
    chapter_lock,      \* ChapterManager.chapter_lock: "free" or the holding task
    factory_roles,     \* RoleFactory.active_roles: role id -> AgentState or "none"
    next_role,         \* number of role ids handed out (uuid freshness)
    role_instances,    \* per role id: conversation_history and last_activity of its AgentInstance
    role_configs,      \* RoleFactory.role_configs: the set of its keys
    factory_lock,      \* RoleFactory.factory_lock: "free" or the holding task
    factory_result,    \* what the get_role_info, cleanup or list call that returned last gave back
    role_listing,      \* list_active_roles: the ids whose info is in `roles` so far
    tpc,               \* per task: position of its coroutine
    targ,              \* per task: the advance_chapter call in flight (chapter id, safety verdict)
    last,              \* outcome of the call that returned last
    pair,              \* observer: two overlapping advance_chapter calls
    active_story_sessions, \* MultiAgent.active_story_sessions: session id -> StorySession
    run,               \* per task: GraphState and position of its process_message call
    turn,              \* envelope of the process_message call that returned last
    http,              \* response of the POST /chat call that returned last
    world_result,      \* result of the create_world call that has just returned
    follow,            \* observer per session: the turn after a world-creating turn
    memory_client,     \* StoryMemoryManager.memory_client: "none" or "mem0"
    memory_cache,      \* StoryMemoryManager.memory_cache: key -> entry
    now,               \* time.time(), in seconds
    mem_result,        \* outcome of the memory manager call that has just returned
    intent_call,       \* one detect_intent call: its inputs and what it returned
    engagement_call,   \* _calculate_engagement_score on one chapter: a short and a long action
    agent_locks,       \* DynamicRoleAgent objects handed out by get_role: holder of thread_lock
    rpc,               \* per task: position of its get_role / respond_to_message calls
    respond_result,    \* the dict the respond_to_message call that returned last gave back
    socket,            \* one /ws connection: its state and what the last frame led to
    running,           \* ResourceMonitor.running
    thread,            \* ResourceMonitor.thread: the thread started last, or NoThread
    next_thread,       \* number of threads start_monitoring has created
    loop_pc,           \* per thread: its position in _monitor_loop
    loop_cut,          \* per thread: the slice it has evaluated and not yet stored
    monitor_data,      \* ResourceMonitor.monitor_data
    appended,          \* number of samples appended to monitor_data so far
    sampled,           \* number of loop iterations that reached get_system_info
    caller,            \* the caller of start/stop_monitoring: "idle" or "joining"
    monitor_call,      \* the start/stop_monitoring call made last
    world_match,       \* one _match_world_type call: its inputs and what it returned
    history_call,      \* one GET /session/{id}/history request and its response
    chapter_listing,   \* the list_story_chapters call in flight or returned last
    cached_for,        \* observer per cache key: the search request whose list the entry holds
    search_call,       \* the search_relevant_memories call that returned last
    memory_stats,      \* the get_memory_statistics call that returned last
    mem0_lib,          \* whether `Memory` was imported, and settings.mem0_enabled
    init_stack,        \* StoryMemoryManager.__init__: the calls of its _init_* methods in progress
    collection_name,   \* settings.mem0_collection_name: the number of "_v2" suffixes it carries
    init_attempts,     \* observer: the collection names the durable client was tried under
    final_call         \* one _determine_final_intent call: its inputs and what it returned

\* state of the chapter manager only
chapterVars ==
    <<active_chapters, next_chapter, chapter_lock, tpc, targ, last, pair>>

\* state of the role factory, shared by chapter manager and orchestrator
factoryVars ==
    <<factory_roles, next_role, role_instances, role_configs, factory_lock,
      factory_result, role_listing>>

\* state of the orchestrator and the endpoint only
graphVars == <<active_story_sessions, run, turn, http, world_result, follow>>

\* state of the memory manager
memoryVars == <<memory_client, memory_cache, now, mem_result>>

\* state of the services checked on their own
intentVars == <<intent_call>>
engagementVars == <<engagement_call>>
roleVars == <<agent_locks, rpc, respond_result>>
socketVars == <<socket>>
monitorVars ==
    <<running, thread, next_thread, loop_pc, loop_cut, monitor_data, appended,
      sampled, caller, monitor_call>>
\* everything above
priorVars ==
    <<chapterVars, factoryVars, graphVars, memoryVars, intentVars, engagementVars,
      roleVars, socketVars, monitorVars>>
worldVars == <<world_match>>
historyVars == <<history_call>>
listingVars == <<chapter_listing>>
searchVars == <<cached_for, search_call, memory_stats>>
constructionVars == <<mem0_lib, init_stack, collection_name, init_attempts>>
finalVars == <<final_call>>
restVars ==
    <<worldVars, historyVars, listingVars, searchVars, constructionVars, finalVars>>
serviceVars ==
    <<intentVars, engagementVars, roleVars, socketVars, monitorVars, restVars>>

vars == <<chapterVars, factoryVars, graphVars, memoryVars, serviceVars>>

(***************************************************************************)
(* Helpers                                                                 *)
(***************************************************************************)
Min(a, b) == IF a < b THEN a ELSE b

Range(s) == {s[i] : i \in 1..Len(s)}

Chapter(c) == IF c \in ChapterIds THEN active_chapters[c] ELSE NoChapter

Exists(c) == Chapter(c).state # "none"

(***************************************************************************)
(* RoleFactory registry operations (each runs under factory_lock, which    *)
(* no coroutine holds across a suspension point)                           *)
(***************************************************************************)
\* create_role_agent for n configs in a row: fresh ids next_role+1..next_role+n
CreatedIds(n) == [i \in 1..n |-> next_role + i]

RegisterAll(reg, ids) ==
    [r \in RoleIds |-> IF r \in Range(ids) THEN "created" ELSE reg[r]]

\* pause_role: any registered instance becomes PAUSED
PauseAll(reg, ids) ==
    [r \in RoleIds |-> IF r \in Range(ids) /\ reg[r] # "none" THEN "paused" ELSE reg[r]]

\* resume_role: any registered instance becomes ACTIVE
ResumeAll(reg, ids) ==
    [r \in RoleIds |-> IF r \in Range(ids) /\ reg[r] # "none" THEN "active" ELSE reg[r]]

\* terminate_role: the instance is removed from both tables
TerminateAllMut(reg, ids) ==
    [r \in RoleIds |-> IF r \in Range(ids) /\ reg[r] # "none" THEN "terminated" ELSE reg[r]]
TerminateAll(reg, ids) ==
    [r \in RoleIds |-> IF r \in Range(ids) THEN "none" ELSE reg[r]]

\* AgentState
AgentState == {"created", "active", "paused", "terminated"}

\* nothing returned yet by get_role_info, cleanup_inactive_roles or
\* list_active_roles
NoFactoryResult ==
    [op |-> "none", role |-> 0, total_conversations |-> 0, count |-> 0,
     inactive |-> {}, before |-> {}, after |-> {}, infos |-> {},
     state_distribution |-> [st \in AgentState |-> 0]]

\* `async with self.factory_lock` enters only while no task holds the lock
FactoryLockFree == factory_lock = "free"

\* the AgentInstance of a role id: the length of its conversation_history,
\* its created_at and its last_activity, -1 while the id is not registered
NoInstance == [conversation_history |-> 0, created_at |-> -1, last_activity |-> -1]

\* create_role_agent stores the config under the id it stores the instance
\* under (`self.role_configs[role.role_id] = config`), and terminate_role
\* deletes both (`del self.role_configs[role_id]`)
ConfigKeys(configs, reg, after) ==
    (configs \cup {r \in RoleIds : reg[r] = "none" /\ after[r] # "none"})
        \ {r \in RoleIds : reg[r] # "none" /\ after[r] = "none"}

\* create_role_agent builds the instance with last_activity = now and an
\* empty history, terminate_role clears and removes it, and no other method
\* of the factory writes to either field
TrackInstances ==
    /\ role_instances' =
        [r \in RoleIds |->
            IF factory_roles'[r] = "none" THEN NoInstance
            ELSE IF factory_roles[r] = "none"
            THEN [conversation_history |-> 0, created_at |-> now,
                  last_activity |-> now]
            ELSE role_instances[r]]
    /\ role_configs' = ConfigKeys(role_configs, factory_roles, factory_roles')

\* get_role: a fresh DynamicRoleAgent for every registered, non-terminated id
GetRoleHits(reg, ids) == SelectSeq(ids, LAMBDA r : reg[r] # "none")

(***************************************************************************)
(* ChapterManager: pure parts                                              *)
(***************************************************************************)
\* _generate_chapter_objectives: one base objective per type, one per goal
BaseObjectivesMut(chapter_type) == IF chapter_type = "introduction" THEN 1 ELSE 0
BaseObjectives(chapter_type) == IF chapter_type \in ChapterType THEN 1 ELSE 0

ObjectiveCount(chapter_type, ngoals) == BaseObjectives(chapter_type) + ngoals

StartAllowedMut(st) == st \in {"planning", "paused"}
StartAllowed(st) == st = "planning"

PauseAllowed(st) == st = "active"

ResumeAllowed(st) == st = "paused"

CompleteAllowed(st) == st \in {"active", "paused"}

ArchiveAllowed(st) == st = "completed"

AdvanceAllowedMut(st) == st \in {"active", "archived"}
AdvanceAllowed(st) == st = "active"

\* DynamicRoleAgent defines respond_to_message but no interact method, so
\* every `await agent.interact(...)` raises AttributeError, which the loop
\* in advance_chapter catches: no response is ever appended.
AgentHasInteract == FALSE

RoleResponses(agents) == IF AgentHasInteract THEN Len(agents) ELSE 0

\* the number of agents whose interact method is entered by
\* `response = await agent.interact(user_action, context=...)`
InteractCalls(agents) == IF AgentHasInteract THEN Len(agents) ELSE 0

\* _update_chapter_progress: current_step += 1, capped at total_steps
UpdateProgress(ch) ==
    IF ch.current_step < ch.total_steps
    THEN [ch EXCEPT !.current_step = @ + 1]
    ELSE ch

\* _check_chapter_completion: steps done, or the stored engagement > 0.8
IsCompletedMut(ch) ==
    \/ ch.current_step > ch.total_steps
    \/ ch.user_engagement_score > (8 * ScoreScale) \div 10
IsCompleted(ch) ==
    \/ ch.current_step >= ch.total_steps
    \/ ch.user_engagement_score > (8 * ScoreScale) \div 10

CheckCompletion(ch) ==
    IF IsCompleted(ch) THEN [ch EXCEPT !.state = "completed"] ELSE ch

\* _calculate_engagement_score (scaled by ScoreScale)
EngagementScoreMut(ch, long, nresp, nemotional) ==
    (5 * ScoreScale) \div 10
    + (IF long THEN ScoreScale \div 10 ELSE 0)
    + (IF nresp > 0 THEN (2 * ScoreScale) \div 10 + nemotional * (ScoreScale \div 10) ELSE 0)
    + ((ScoreScale \div 10) * ch.current_step) \div ch.total_steps
EngagementScore(ch, long, nresp, nemotional) ==
    Min(ScoreScale,
        (5 * ScoreScale) \div 10
        + (IF long THEN ScoreScale \div 10 ELSE 0)
        + (IF nresp > 0 THEN (2 * ScoreScale) \div 10 + nemotional * (ScoreScale \div 10) ELSE 0)
        + ((ScoreScale \div 10) * ch.current_step) \div ch.total_steps)

StoreEngagement(ch, long, nresp) ==
    [ch EXCEPT !.user_engagement_score = EngagementScore(ch, long, nresp, 0)]

(***************************************************************************)
(* ChapterManager: operations.  Every public method runs under              *)
(* chapter_lock; a method that never suspends while holding it is one       *)
(* action.                                                                  *)
(***************************************************************************)
Idle(t) == tpc[t] = "idle"
LockFree == chapter_lock = "free"

\* create_chapter
CreateChapter(t) ==
    /\ Idle(t) /\ LockFree
    /\ next_chapter < MaxChapters
    /\ \E chapter_type \in ChapterType, nroles \in 0..1, ngoals \in 0..MaxGoals :
         /\ next_role + nroles <= MaxRoles
         /\ LET c == next_chapter + 1
                ids == CreatedIds(nroles)
                objectives == ObjectiveCount(chapter_type, ngoals)
                ch == [state |-> "planning", objectives |-> objectives,
                       current_step |-> 0, total_steps |-> objectives,
                       active_roles |-> ids, user_engagement_score |-> 0]
            IN /\ active_chapters' = [active_chapters EXCEPT ![c] = ch]
               /\ next_chapter' = c
               /\ factory_roles' = RegisterAll(factory_roles, ids)
               /\ TrackInstances
               /\ UNCHANGED <<factory_lock, factory_result, role_listing>>
               /\ next_role' = next_role + nroles
               /\ last' = [NoResult EXCEPT !.op = "create", !.chapter = c, !.ret = "id",
                                           !.unchanged = FALSE,
                                           !.chapter_type = chapter_type,
                                           !.ngoals = ngoals]
    /\ pair' = NoPair
    /\ UNCHANGED <<chapter_lock, tpc, targ, graphVars, memoryVars, serviceVars>>

\* The five boolean transitions share one shape: look the chapter up, test
\* its state, assign the new state, cascade to the role factory, return.
Transition(t, op, c, allowed, newState, reg) ==
    /\ Idle(t) /\ LockFree
    /\ LET ch == Chapter(c)
           ok == Exists(c) /\ allowed
           ch2 == IF ok THEN [ch EXCEPT !.state = newState] ELSE ch
       IN /\ active_chapters' = IF ok THEN [active_chapters EXCEPT ![c] = ch2]
                                ELSE active_chapters
          /\ factory_roles' = IF ok THEN reg ELSE factory_roles
          /\ TrackInstances
          /\ UNCHANGED <<factory_lock, factory_result, role_listing>>
          /\ last' = [NoResult EXCEPT !.op = op, !.chapter = c, !.pre = ch.state,
                                      !.unchanged = (ch2 = ch),
                                      !.ret = IF ok THEN "true" ELSE "false"]
    /\ pair' = NoPair
    /\ UNCHANGED <<next_chapter, chapter_lock, next_role, tpc, targ, graphVars, memoryVars, serviceVars>>

StartChapter(t) ==
    \E c \in ChapterIds \cup {UnknownChapter} :
        Transition(t, "start", c, StartAllowed(Chapter(c).state), "active", factory_roles)

PauseChapter(t) ==
    \E c \in ChapterIds \cup {UnknownChapter} :
        Transition(t, "pause", c, PauseAllowed(Chapter(c).state), "paused",
                   PauseAll(factory_roles, Chapter(c).active_roles))

ResumeChapter(t) ==
    \E c \in ChapterIds \cup {UnknownChapter} :
        Transition(t, "resume", c, ResumeAllowed(Chapter(c).state), "active",
                   ResumeAll(factory_roles, Chapter(c).active_roles))

CompleteChapter(t) ==
    \E c \in ChapterIds \cup {UnknownChapter} :
        Transition(t, "complete", c, CompleteAllowed(Chapter(c).state), "completed",
                   TerminateAll(factory_roles, Chapter(c).active_roles))

ArchiveChapter(t) ==
    \E c \in ChapterIds \cup {UnknownChapter} :
        Transition(t, "archive", c, ArchiveAllowed(Chapter(c).state), "archived", factory_roles)

(***************************************************************************)
(* advance_chapter.  The call is issued (AdvanceCall), acquires             *)
(* chapter_lock and runs the guard and the safety check                     *)
(* (AdvanceEnter), then awaits the role factory and finishes                *)
(* (AdvanceBody), releasing the lock on return.  The verdict of             *)
(* safety_agent.validate_content on the action and the length of the        *)
(* action are inputs drawn where the code reads them.                       *)
(***************************************************************************)
Other(t) == CHOOSE u \in Tasks : u # t

Overlaps(t, c) ==
    /\ AdvanceAllowed(Chapter(c).state)
    /\ tpc[Other(t)] \in {"adv_wait", "adv_body"}
    /\ targ[Other(t)].chapter = c

AdvanceCall(t) ==
    /\ Idle(t)
    /\ \E c \in ChapterIds \cup {UnknownChapter} :
         /\ targ' = [targ EXCEPT ![t] = [NoArg EXCEPT !.chapter = c]]
         /\ pair' = IF Overlaps(t, c)
                    THEN [chapter |-> c, base |-> Chapter(c).current_step,
                          total |-> Chapter(c).total_steps,
                          fin |-> 0, nsucc |-> 0, delta |-> -1]
                    ELSE NoPair
    /\ tpc' = [tpc EXCEPT ![t] = "adv_wait"]
    /\ UNCHANGED <<active_chapters, next_chapter, chapter_lock, factory_roles,
                   role_instances, role_configs, factory_lock, factory_result, role_listing,
                   next_role, last, graphVars, memoryVars, serviceVars>>

\* observer update when an advance_chapter call returns; a pair in which
\* one action is unsafe is dropped
PairAfter(safe, ok, stepAfter) ==
    IF pair = NoPair \/ ~safe THEN NoPair
    ELSE [pair EXCEPT !.fin = @ + 1,
                      !.nsucc = @ + (IF ok THEN 1 ELSE 0),
                      !.delta = IF pair.fin = 1 THEN stepAfter - pair.base ELSE -1]

AcquireChapterLockMut(t) == TRUE
AcquireChapterLock(t) == chapter_lock = "free"

\* safety_agent.validate_content(user_action): a verdict, or an exception
SafetyVerdicts == {"safe", "unsafe", "raises"}

\* `if not safety_result.get("is_safe", False): return {...}`
SafetyRejectsMut(verdict) == FALSE
SafetyRejects(verdict) == verdict = "unsafe"

AdvanceReturn(t) ==
    /\ tpc' = [tpc EXCEPT ![t] = "idle"]
    /\ targ' = [targ EXCEPT ![t] = NoArg]

AdvanceEnter(t) ==
    /\ tpc[t] = "adv_wait"
    /\ AcquireChapterLock(t)
    /\ LET c == targ[t].chapter
           ch == Chapter(c)
           res == [NoResult EXCEPT !.op = "advance", !.chapter = c, !.pre = ch.state]
       IN IF ~Exists(c) \/ ~AdvanceAllowed(ch.state)
          THEN /\ last' = [res EXCEPT !.ret = "failure", !.error = "not_active"]
               /\ AdvanceReturn(t)
               /\ pair' = PairAfter(TRUE, FALSE, ch.current_step)
               /\ UNCHANGED chapter_lock
          ELSE \E verdict \in SafetyVerdicts :
                 IF verdict = "raises"
                 THEN /\ last' = [res EXCEPT !.ret = "failure", !.error = "exception",
                                             !.verdict = verdict]
                      /\ AdvanceReturn(t)
                      /\ pair' = PairAfter(FALSE, FALSE, ch.current_step)
                      /\ UNCHANGED chapter_lock
                 ELSE IF SafetyRejects(verdict)
                 THEN /\ last' = [res EXCEPT !.ret = "failure", !.error = "unsafe",
                                             !.verdict = verdict]
                      /\ AdvanceReturn(t)
                      /\ pair' = PairAfter(FALSE, FALSE, ch.current_step)
                      /\ UNCHANGED chapter_lock
                 ELSE /\ chapter_lock' = t
                      /\ tpc' = [tpc EXCEPT ![t] = "adv_body"]
                      /\ targ' = [targ EXCEPT ![t].verdict = verdict]
                      /\ UNCHANGED <<last, pair>>
    /\ UNCHANGED <<active_chapters, next_chapter, factoryVars,
                   graphVars, memoryVars, serviceVars>>

AdvanceBody(t) ==
    /\ tpc[t] = "adv_body"
    /\ \E long \in BOOLEAN :
         LET c == targ[t].chapter
             ch == Chapter(c)
             agents == GetRoleHits(factory_roles, ch.active_roles)
             nresp == RoleResponses(agents)
             ch1 == UpdateProgress(ch)
             ch2 == CheckCompletion(ch1)
             ch3 == StoreEngagement(ch2, long, nresp)
         IN /\ active_chapters' = [active_chapters EXCEPT ![c] = ch3]
            /\ last' = [NoResult EXCEPT !.op = "advance", !.chapter = c,
                                        !.pre = ch.state, !.ret = "success",
                                        !.verdict = targ[t].verdict,
                                        !.unchanged = (ch3 = ch),
                                        !.role_calls = Len(ch.active_roles),
                                        !.agents = Len(agents),
                                        !.interact_calls = InteractCalls(agents),
                                        !.role_responses = nresp]
            /\ pair' = PairAfter(targ[t].verdict = "safe", TRUE, ch3.current_step)
    /\ chapter_lock' = IF chapter_lock = t THEN "free" ELSE chapter_lock
    /\ AdvanceReturn(t)
    /\ UNCHANGED <<next_chapter, factoryVars, graphVars, memoryVars, serviceVars>>

(***************************************************************************)
(* StoryMemoryManager (memory/mem0.py, which the orchestrator imports, and  *)
(* core/memory/mem0.py).  The backing mem0 library is the environment: what *)
(* its add and search calls return is an input of the call.                 *)
(***************************************************************************)
MemoryModules == {"memory.mem0", "core.memory.mem0"}

\* `from memory.mem0 import story_memory_manager` in multi_agent.py
OrchestratorMemory == "memory.mem0"

\* settings.mem0_cache_ttl, and the literal of memory/mem0.py
cache_ttl == 300

\* the clock advances in steps of half the TTL
TickSeconds == cache_ttl \div 2

UserIds == {"u1"}
Queries == {"q1"}
StoryIds == {"", "s1"}

\* cache_key = f"{user_id}_{query}_{story_id or 'all'}"
CacheKey(user_id, query, story_id) ==
    user_id \o "_" \o query \o "_" \o (IF story_id = "" THEN "all" ELSE story_id)

\* callers of search_relevant_memories: a user id and a query are free text
SearchUsers == {"u1", "u1_q1"}
SearchQueries == {"q1", "q1_q1"}

\* the (user_id, query, story_id) triples searched for
SearchTriples ==
    {<<"u1", "q1", "">>, <<"u1", "q1", "s1">>,
     <<"u1", "q1_q1", "">>, <<"u1_q1", "q1", "">>}

\* get_memory_statistics searches with query=""
StatisticsQuery == ""

CacheKeys ==
    {CacheKey(u, q, s) : u \in UserIds \cup SearchUsers,
                         q \in Queries \cup SearchQueries \cup {StatisticsQuery},
                         s \in StoryIds}

\* what memory_client.search can yield after conversion: a list of memories
ResultLists == {<<>>, <<"m1">>}

NoEntry == [present |-> FALSE, data |-> <<>>, timestamp |-> 0]

NoMemResult ==
    [op |-> "none", module |-> "none", client |-> "none", ret |-> "none", key |-> "none",
     fresh |-> FALSE, cached |-> <<>>, hit |-> FALSE, backing |-> FALSE,
     result |-> <<>>]

\* _get_from_cache: the data of an entry younger than cache_ttl, else None
CacheFresh(cache, key, time) ==
    cache[key].present /\ time - cache[key].timestamp < cache_ttl

\* `if cached_result:` -- None and the empty list are both falsy
CachedResultTruthy(cache, key, time) ==
    CacheFresh(cache, key, time) /\ cache[key].data # <<>>

\* _update_cache
UpdateCache(cache, key, data, time) ==
    [cache EXCEPT ![key] = [present |-> TRUE, data |-> data, timestamp |-> time]]

\* what memory_client.search does: it returns a list, or it raises
BackingOutcomes ==
    {[raises |-> FALSE, list |-> l] : l \in ResultLists}
        \cup {[raises |-> TRUE, list |-> <<>>]}

\* search_relevant_memories: [hit, backing, result, cache']; `found` is the
\* outcome of the backing search, should the call get that far
SearchRelevantMemories(cache, client, key, found, time) ==
    IF CachedResultTruthy(cache, key, time)
    THEN [hit |-> TRUE, backing |-> FALSE, result |-> cache[key].data, cache |-> cache]
    ELSE IF client = "none"
    THEN [hit |-> FALSE, backing |-> FALSE, result |-> <<>>, cache |-> cache]
    ELSE IF found.raises
    THEN [hit |-> FALSE, backing |-> TRUE, result |-> <<>>, cache |-> cache]
    ELSE [hit |-> FALSE, backing |-> TRUE, result |-> found.list,
          cache |-> UpdateCache(cache, key, found.list, time)]

\* the memory id a store_* method returns.  core/memory/mem0.py tests the
\* client first; memory/mem0.py calls self.memory_client.add at once and
\* turns the AttributeError of a None client into the error id.
StoreReturnMut(module, client, added) ==
    IF client = "none" THEN "raised"
    ELSE IF added THEN "memory_id" ELSE "error"
StoreReturn(module, client, added) ==
    IF client = "none"
    THEN IF module = "core.memory.mem0" THEN "mem0_disabled" ELSE "error"
    ELSE IF added THEN "memory_id" ELSE "error"

StoreMethods ==
    {"store_world_memory", "store_role_memory", "store_story_progress",
     "store_interaction_history"}

(***************************************************************************)
(* WorldAgent.create_world                                                 *)
(***************************************************************************)
\* _safety_check_content: `validate` is what safety_agent.validate_content
\* does with the description, `keyword` whether the description contains one
\* of the dangerous keywords
SafetyLevelOf(validate, keyword) ==
    IF validate = "raises" THEN "warning"
    ELSE IF validate = "safe" /\ ~keyword THEN "safe"
    ELSE IF keyword THEN "warning"
    ELSE "unsafe"

NoWorldResult ==
    [validate |-> "none", keyword |-> FALSE, level |-> "none",
     success |-> FALSE, world |-> "none", generated |-> FALSE]

\* create_world: steps 2-5 (matching, generation, validation, id) are the
\* generation, which returns a world with a world_name or raises
CreateWorldResult(validate, keyword, generation) ==
    LET level == SafetyLevelOf(validate, keyword)
        res == [NoWorldResult EXCEPT !.validate = validate, !.keyword = keyword,
                                     !.level = level]
    IN IF level = "unsafe" THEN res
       ELSE IF generation = "raises"
       THEN [res EXCEPT !.level = "unsafe", !.generated = TRUE]
       ELSE [res EXCEPT !.success = TRUE, !.world = "world", !.generated = TRUE]

GenerationOutcomes == {"ok", "raises"}

(***************************************************************************)
(* MultiAgent: the graph state of one process_message call                 *)
(***************************************************************************)
InteractionMode == {"chat", "story"}
InputType == {"text", "voice"}

\* the fixed lines of the orchestrator
SafeResponse == "safe_response"            \* response_formatter_node, unsafe
DefaultResponse == "default_response"      \* response_formatter_node, no reply
NotUnderstood == "not_understood"          \* process_message, falsy reply
SystemApology == "system_apology"          \* process_message, except branch
WorldFailed == "world_failed"              \* story_world_builder_node
StoryGuide == "story_guide"                \* story_interactive_node
StoryError == "story_error"                \* story_interactive_node, except
RoleBusy == "role_busy"                    \* story_interactive_node
RoleMissing == "role_missing"              \* story_interactive_node
None == "None"

HumanMessage == [type |-> "human", content |-> "user_message"]
AIMessage(content) == [type |-> "ai", content |-> content]

NoRoleContext == [set |-> FALSE, active_roles |-> <<>>]

NoSession == [exists |-> FALSE, active_roles |-> <<>>]

\* ChatRequest.session_id of a client that sent none
OmittedSession == 0

NoRun ==
    [node |-> "idle", via |-> "none", session |-> 0, sent |-> OmittedSession,
     input_type |-> "text",
     current_mode |-> "chat", safety_check |-> "none", messages |-> <<>>,
     response_ready |-> FALSE, world_context |-> "none",
     role_context |-> NoRoleContext,
     visited |-> {}, created |-> FALSE, mem_calls |-> 0, follow |-> FALSE,
     path |-> <<>>, world_failed |-> FALSE, filter_raised |-> FALSE]

NoTurn ==
    [raised |-> FALSE, success |-> FALSE, response |-> None, mode |-> "none",
     safety_check |-> "none", world_context |-> "none", role_count |-> -1,
     visited |-> {}, created |-> FALSE, mem_calls |-> 0, via |-> "none",
     client |-> "none", path |-> <<>>, world_failed |-> FALSE,
     filter_raised |-> FALSE, input_type |-> "none"]

NoHttp ==
    [status |-> 0, rows |-> 0, success |-> FALSE, response |-> None, db |-> "none",
     session_id |-> OmittedSession, used |-> OmittedSession]

NoFollow ==
    [phase |-> "none", mode |-> "none", safety_check |-> "none",
     success |-> FALSE, role_count |-> -1, ended |-> FALSE]

\* the nodes a run must skip once its message is marked unsafe
ProcessingNodes ==
    {"emotion_analyzer", "chat_handler", "story_world_builder",
     "story_role_manager", "story_interactive", "memory_updater"}

Session(s) == IF s \in SessionIds THEN active_story_sessions[s] ELSE NoSession

InFlight == {t \in Tasks : run[t].node # "idle"}

\* role ids are fresh uuids: a call starts only while ids remain for every
\* call in flight
CanStart(n) == next_role + n * (Cardinality(InFlight) + 1) <= MaxRoles

Visit(r, node, next) ==
    [r EXCEPT !.visited = @ \cup {node}, !.path = Append(@, node), !.node = next]

Step(t, r) == run' = [run EXCEPT ![t] = r]

\* a store_* call of the orchestrator on story_memory_manager
GraphStore(method, added) ==
    mem_result' = [NoMemResult EXCEPT
                     !.op = method, !.module = OrchestratorMemory,
                     !.client = memory_client,
                     !.ret = StoreReturn(OrchestratorMemory, memory_client, added)]

(***************************************************************************)
(* MultiAgent.process_message and POST /chat.  A call runs the graph node   *)
(* by node; calls of different tasks interleave between nodes.  What the    *)
(* agents outside this model (intent, safety, emotion, language model,      *)
(* database) answer is an input of the node that asks them.                 *)
(***************************************************************************)
\* `final_response or "..."`: None and the empty string are falsy
FinalResponse(messages) ==
    IF Len(messages) > 0 /\ messages[Len(messages)].type = "ai"
    THEN messages[Len(messages)].content
    ELSE None

ResponseOrDefaultMut(final) == final
ResponseOrDefault(final) ==
    IF final \in {None, ""} THEN NotUnderstood ELSE final

\* the envelope process_message returns
Envelope(r, raised) ==
    IF raised
    THEN [NoTurn EXCEPT !.raised = TRUE, !.response = SystemApology,
                        !.via = r.via, !.client = memory_client]
    ELSE [NoTurn EXCEPT
            !.success = TRUE,
            !.response = ResponseOrDefault(FinalResponse(r.messages)),
            !.mode = r.current_mode,
            !.safety_check = r.safety_check,
            !.world_context = r.world_context,
            !.role_count = IF r.role_context.set
                           THEN Len(r.role_context.active_roles) ELSE -1,
            !.visited = r.visited, !.created = r.created, !.path = r.path,
            !.world_failed = r.world_failed,
            !.filter_raised = r.filter_raised, !.input_type = r.input_type,
            !.mem_calls = r.mem_calls, !.via = r.via,
            !.client = memory_client]

\* langgraph_chat: the status it answers with, given the envelope and what
\* DatabaseService.create_conversation did
EndpointStatusMut(success, db) == IF success /\ db = "ok" THEN 200 ELSE 500
EndpointStatus(success, db) == IF db = "ok" THEN 200 ELSE 500

DbOutcomes == {"ok", "raises"}

FollowAfter(r, env) ==
    LET s == r.session
    IN IF r.follow
       THEN [follow EXCEPT ![s] = [@ EXCEPT !.phase = "done", !.mode = env.mode,
                                            !.safety_check = env.safety_check,
                                            !.success = env.success,
                                            !.role_count = env.role_count]]
       ELSE IF r.created /\ env.success /\ follow[s].phase # "running"
       THEN [follow EXCEPT ![s] = [NoFollow EXCEPT !.phase = "armed",
                                                   !.ended = ~Session(s).exists]]
       ELSE follow

\* process_message returns, and with it langgraph_chat when it is the caller
Finish(t, r, raised) ==
    LET env == Envelope(r, raised)
    IN /\ turn' = env
       /\ run' = [run EXCEPT ![t] = NoRun]
       /\ follow' = FollowAfter(r, env)
       /\ IF r.via = "api"
          THEN \E db \in DbOutcomes :
                 http' = [status |-> EndpointStatus(env.success, db),
                          rows |-> IF db = "ok" THEN 1 ELSE 0,
                          success |-> env.success,
                          response |-> IF db = "ok" THEN env.response ELSE None,
                          db |-> db,
                          session_id |-> IF db = "ok" THEN r.sent ELSE OmittedSession,
                          used |-> IF db = "ok" THEN r.session ELSE OmittedSession]
          ELSE http' = NoHttp

\* `if not session_id: session_id = f"session_{user_id}_{uuid...}"`: the
\* session s a call runs under is the one its caller sent, or a generated
\* one, which names no session yet
SessionUsed(s, sent, via) ==
    IF sent = OmittedSession THEN via = "api" /\ ~Session(s).exists ELSE sent = s

\* process_message is called, by langgraph_chat (text, a string) or directly
ProcessMessage(t) ==
    /\ run[t].node = "idle"
    /\ CanStart(2)
    /\ \E s \in SessionIds, via \in {"api", "direct"}, input_type \in InputType,
          valid \in BOOLEAN, invoke \in {"ok", "raises"},
          sent \in SessionIds \cup {OmittedSession} :
         /\ via = "api" => (input_type = "text" /\ valid)
         /\ SessionUsed(s, sent, via)
         /\ LET r == [NoRun EXCEPT !.node = "input_processor", !.via = via,
                                   !.session = s, !.sent = sent,
                                   !.input_type = input_type,
                                   !.messages = <<HumanMessage>>,
                                   !.follow = (follow[s].phase = "armed")]
            IN IF ~valid \/ invoke = "raises"
               THEN Finish(t, r, TRUE)
               ELSE /\ Step(t, r)
                    /\ follow' = [follow EXCEPT ![s] =
                                    IF r.follow THEN [@ EXCEPT !.phase = "running"]
                                    ELSE IF @.phase = "done" THEN NoFollow
                                    ELSE @]
                    /\ turn' = NoTurn
                    /\ http' = NoHttp
    /\ world_result' = NoWorldResult
    /\ mem_result' = NoMemResult
    /\ UNCHANGED <<chapterVars, factoryVars, active_story_sessions,
                   memory_client, serviceVars, memory_cache, now>>

NodeFrame ==
    UNCHANGED <<chapterVars, turn, http, follow, memory_client, serviceVars, now>>

\* a node that calls neither the world agent nor the memory manager
NoCalls ==
    /\ world_result' = NoWorldResult
    /\ mem_result' = NoMemResult
    /\ UNCHANGED memory_cache

InputProcessor(t) ==
    /\ run[t].node = "input_processor"
    /\ Step(t, Visit(run[t], "input_processor", "intent_router"))
    /\ NodeFrame /\ NoCalls
    /\ UNCHANGED <<factoryVars, active_story_sessions>>

\* intent_router_node: what detect_intent answers, or that it raises
IntentOutcomes == {"story", "chat", "other_story_keyword", "other", "raises"}

ModeOf(intent) ==
    IF intent \in {"story", "other_story_keyword"} THEN "story" ELSE "chat"

IntentRouter(t) ==
    /\ run[t].node = "intent_router"
    /\ \E intent \in IntentOutcomes :
         Step(t, [Visit(run[t], "intent_router", "safety_checker")
                    EXCEPT !.current_mode = ModeOf(intent)])
    /\ NodeFrame /\ NoCalls
    /\ UNCHANGED <<factoryVars, active_story_sessions>>

\* the conditional edge after safety_checker
SafetyRouteMut(safety_check) == "emotion_analyzer"
SafetyRoute(safety_check) ==
    IF safety_check # "unsafe" THEN "emotion_analyzer" ELSE "response_formatter"

\* the safety_check safety_checker_node records: what filter_content
\* answered, or is_safe = True from the except branch when it raised
SafetyCheckOfMut(verdict) == IF verdict = "safe" THEN "safe" ELSE "unsafe"

SafetyCheckOf(verdict) == IF verdict = "unsafe" THEN "unsafe" ELSE "safe"

\* safety_checker_node
SafetyChecker(t) ==
    /\ run[t].node = "safety_checker"
    /\ \E verdict \in SafetyVerdicts :
         LET check == SafetyCheckOf(verdict)
         IN Step(t, [Visit(run[t], "safety_checker", SafetyRoute(check))
                       EXCEPT !.safety_check = check,
                              !.filter_raised = (verdict = "raises")])
    /\ NodeFrame /\ NoCalls
    /\ UNCHANGED <<factoryVars, active_story_sessions>>

EmotionAnalyzer(t) ==
    /\ run[t].node = "emotion_analyzer"
    /\ Step(t, Visit(run[t], "emotion_analyzer",
                     IF run[t].current_mode = "chat"
                     THEN "chat_handler" ELSE "story_world_builder"))
    /\ NodeFrame /\ NoCalls
    /\ UNCHANGED <<factoryVars, active_story_sessions>>

\* _generate_chat_response: the stripped completion (possibly empty), or the
\* fallback line when the completion call raises
ChatReplies == {"chat_reply", "", "chat_fallback"}

ChatHandler(t) ==
    /\ run[t].node = "chat_handler"
    /\ \E found \in BackingOutcomes, reply \in ChatReplies :
         LET key == CacheKey("u1", "q1", "")
             r == SearchRelevantMemories(memory_cache, memory_client, key, found, now)
         IN /\ memory_cache' = r.cache
            /\ mem_result' = [NoMemResult EXCEPT
                                !.op = "search", !.client = memory_client,
                                !.key = key,
                                !.fresh = CacheFresh(memory_cache, key, now),
                                !.cached = memory_cache[key].data,
                                !.hit = r.hit, !.backing = r.backing,
                                !.result = r.result]
            /\ Step(t, [Visit(run[t], "chat_handler", "memory_updater")
                          EXCEPT !.messages = Append(@, AIMessage(reply)),
                                 !.response_ready = TRUE])
    /\ NodeFrame
    /\ world_result' = NoWorldResult
    /\ UNCHANGED <<factoryVars, active_story_sessions>>

\* create_default_roles: one role per default config
DefaultConfigsMut == <<"young_wizard">>
DefaultConfigs == <<"young_wizard", "wise_elder">>

\* `if session_id not in self.active_story_sessions`
HasStorySessionMut(s) == FALSE
HasStorySession(s) == Session(s).exists

\* story_world_builder_node.  The test, create_world, the assignment to
\* active_story_sessions and store_world_memory have no await between them,
\* and create_default_roles does not suspend while factory_lock is free.
StoryWorldBuilder(t) ==
    /\ run[t].node = "story_world_builder"
    /\ LET r == Visit(run[t], "story_world_builder", "story_role_manager")
           s == r.session
       IN IF ~HasStorySession(s)
          THEN \E validate \in SafetyVerdicts, keyword \in BOOLEAN,
                  generation \in GenerationOutcomes, added \in BOOLEAN :
                 LET res == CreateWorldResult(validate, keyword, generation)
                     ids == CreatedIds(Len(DefaultConfigs))
                 IN /\ world_result' = res
                    /\ IF res.success
                       THEN /\ active_story_sessions' =
                                 [active_story_sessions EXCEPT
                                    ![s] = [exists |-> TRUE, active_roles |-> ids]]
                            /\ GraphStore("store_world_memory", added)
                            /\ factory_roles' = RegisterAll(factory_roles, ids)
                            /\ TrackInstances
                            /\ UNCHANGED <<factory_lock, factory_result, role_listing>>
                            /\ next_role' = next_role + Len(ids)
                            /\ Step(t, [r EXCEPT !.world_context = res.world,
                                                 !.created = TRUE,
                                                 !.mem_calls = @ + 1])
                       ELSE /\ Step(t, [r EXCEPT
                                          !.messages = Append(@, AIMessage(WorldFailed)),
                                          !.response_ready = TRUE,
                                          !.world_failed = TRUE])
                            /\ mem_result' = NoMemResult
                            /\ UNCHANGED <<active_story_sessions, factoryVars>>
          ELSE /\ Step(t, r)
               /\ world_result' = NoWorldResult
               /\ mem_result' = NoMemResult
               /\ UNCHANGED <<active_story_sessions, factoryVars>>
    /\ NodeFrame
    /\ UNCHANGED memory_cache

\* story_role_manager_node: get_role_info answers for every registered id
StoryRoleManager(t) ==
    /\ run[t].node = "story_role_manager"
    /\ LET r == Visit(run[t], "story_role_manager", "story_interactive")
           session == Session(r.session)
       IN IF ~session.exists
          THEN Step(t, r)
          ELSE Step(t, [r EXCEPT !.role_context =
                          [set |-> TRUE,
                           active_roles |-> GetRoleHits(factory_roles,
                                                        session.active_roles)]])
    /\ NodeFrame /\ NoCalls
    /\ UNCHANGED <<factoryVars, active_story_sessions>>

\* respond_to_message: a reply (possibly empty), success=false, or it raises
RoleOutcomes == {"role_reply", "", "failure", "raises"}

\* story_interactive_node.  state.get("role_context", {}) is None while the
\* role manager has not set it, so with a session present the test of
\* role_context raises and the except branch answers.
StoryInteractive(t) ==
    /\ run[t].node = "story_interactive"
    /\ LET r == Visit(run[t], "story_interactive", "memory_updater")
           session == Session(r.session)
           roles == r.role_context.active_roles
           Reply(content) == [r EXCEPT !.messages = Append(@, AIMessage(content)),
                                       !.response_ready = TRUE]
       IN IF session.exists /\ ~r.role_context.set
          THEN Step(t, Reply(StoryError)) /\ mem_result' = NoMemResult
          ELSE IF ~session.exists \/ roles = <<>>
          THEN Step(t, Reply(StoryGuide)) /\ mem_result' = NoMemResult
          ELSE IF GetRoleHits(factory_roles, <<Head(roles)>>) = <<>>
          THEN Step(t, Reply(RoleMissing)) /\ mem_result' = NoMemResult
          ELSE \E outcome \in RoleOutcomes, added \in BOOLEAN :
                 CASE outcome = "raises" ->
                        Step(t, Reply(StoryError)) /\ mem_result' = NoMemResult
                   [] outcome = "failure" ->
                        Step(t, Reply(RoleBusy)) /\ mem_result' = NoMemResult
                   [] OTHER ->
                        /\ Step(t, [Reply(outcome) EXCEPT !.mem_calls = @ + 1])
                        /\ GraphStore("store_interaction_history", added)
    /\ NodeFrame
    /\ world_result' = NoWorldResult
    /\ UNCHANGED <<factoryVars, active_story_sessions, memory_cache>>

\* memory_updater_node
MemoryUpdater(t) ==
    /\ run[t].node = "memory_updater"
    /\ LET r == Visit(run[t], "memory_updater", "response_formatter")
       IN IF Len(r.messages) >= 2
          THEN \E added \in BOOLEAN :
                 /\ Step(t, [r EXCEPT !.mem_calls = @ + 1])
                 /\ GraphStore("store_interaction_history", added)
          ELSE Step(t, r) /\ mem_result' = NoMemResult
    /\ NodeFrame
    /\ world_result' = NoWorldResult
    /\ UNCHANGED <<factoryVars, active_story_sessions, memory_cache>>

\* the conditional edge after response_formatter
VoiceRouteMut(input_type) == "__end__"

VoiceRoute(input_type) ==
    IF input_type = "voice" THEN "voice_output_processor" ELSE "__end__"

\* response_formatter_node
ResponseFormatter(t) ==
    /\ run[t].node = "response_formatter"
    /\ LET next == VoiceRoute(run[t].input_type)
           r == Visit(run[t], "response_formatter", next)
           lastType == IF r.messages = <<>> THEN "none"
                       ELSE r.messages[Len(r.messages)].type
       IN IF r.safety_check = "unsafe"
          THEN Step(t, [r EXCEPT
                          !.messages = IF lastType = "human"
                                       THEN Append(@, AIMessage(SafeResponse)) ELSE @,
                          !.response_ready = TRUE])
          ELSE IF r.response_ready
          THEN Step(t, r)
          ELSE Step(t, [r EXCEPT
                          !.messages = IF lastType # "ai"
                                       THEN Append(@, AIMessage(DefaultResponse)) ELSE @,
                          !.response_ready = TRUE])
    /\ NodeFrame /\ NoCalls
    /\ UNCHANGED <<factoryVars, active_story_sessions>>

\* voice_output_processor_node: only voice metadata changes
VoiceOutputProcessor(t) ==
    /\ run[t].node = "voice_output_processor"
    /\ Step(t, Visit(run[t], "voice_output_processor", "__end__"))
    /\ NodeFrame /\ NoCalls
    /\ UNCHANGED <<factoryVars, active_story_sessions>>

\* the graph reached END: process_message builds the envelope
ReturnEnvelope(t) ==
    /\ run[t].node = "__end__"
    /\ Finish(t, run[t], FALSE)
    /\ world_result' = NoWorldResult
    /\ mem_result' = NoMemResult
    /\ UNCHANGED <<chapterVars, factoryVars, active_story_sessions,
                   memory_client, serviceVars, memory_cache, now>>

\* end_story_session
EndStorySession(t) ==
    /\ run[t].node = "idle"
    /\ \E s \in SessionIds \cup {UnknownSession} :
         /\ IF Session(s).exists
            THEN /\ factory_roles' = TerminateAll(factory_roles, Session(s).active_roles)
                 /\ TrackInstances
                 /\ UNCHANGED <<factory_lock, factory_result, role_listing>>
                 /\ active_story_sessions' = [active_story_sessions EXCEPT ![s] = NoSession]
                 /\ follow' = [follow EXCEPT ![s].ended =
                                 @ \/ follow[s].phase \in {"armed", "running"}]
            ELSE UNCHANGED <<factory_roles, role_instances, role_configs, factory_lock, factory_result, role_listing,
                             active_story_sessions, follow>>
         /\ last' = [NoResult EXCEPT
                        !.op = "end_story_session", !.chapter = s,
                        !.pre = IF Session(s).exists THEN "session" ELSE "none",
                        !.ret = IF Session(s).exists THEN "true" ELSE "false",
                        !.unchanged = ~Session(s).exists]
    /\ turn' = NoTurn /\ http' = NoHttp /\ world_result' = NoWorldResult
    /\ mem_result' = NoMemResult
    /\ UNCHANGED <<active_chapters, next_chapter, chapter_lock, tpc, targ, pair,
                   next_role, run, memory_client, serviceVars, memory_cache, now>>

\* create_world called directly on world_agent
CreateWorld(t) ==
    /\ run[t].node = "idle"
    /\ \E validate \in SafetyVerdicts, keyword \in BOOLEAN,
          generation \in GenerationOutcomes :
         world_result' = CreateWorldResult(validate, keyword, generation)
    /\ turn' = NoTurn /\ http' = NoHttp /\ mem_result' = NoMemResult
    /\ UNCHANGED <<chapterVars, factoryVars, active_story_sessions, run, follow,
                   memory_client, serviceVars, memory_cache, now>>

(***************************************************************************)
(* Calls made directly on the memory manager, and its clock                *)
(***************************************************************************)
\* a store_* call made directly on the manager of either module
StoreMemory(t) ==
    /\ run[t].node = "idle"
    /\ \E module \in MemoryModules, method \in StoreMethods, added \in BOOLEAN :
         mem_result' = [NoMemResult EXCEPT
                          !.op = method, !.module = module, !.client = memory_client,
                          !.ret = StoreReturn(module, memory_client, added)]
    /\ turn' = NoTurn /\ http' = NoHttp /\ world_result' = NoWorldResult
    /\ UNCHANGED <<chapterVars, factoryVars, active_story_sessions, run, follow,
                   memory_client, serviceVars, memory_cache, now>>

\* a search_relevant_memories call made directly on the manager
SearchMemory(t) ==
    /\ run[t].node = "idle"
    /\ \E u \in UserIds, q \in Queries, s \in StoryIds, found \in BackingOutcomes :
         LET key == CacheKey(u, q, s)
             r == SearchRelevantMemories(memory_cache, memory_client, key, found, now)
         IN /\ memory_cache' = r.cache
            /\ mem_result' = [NoMemResult EXCEPT
                                !.op = "search", !.client = memory_client,
                                !.key = key,
                                !.fresh = CacheFresh(memory_cache, key, now),
                                !.cached = memory_cache[key].data,
                                !.hit = r.hit, !.backing = r.backing,
                                !.result = r.result]
    /\ turn' = NoTurn /\ http' = NoHttp /\ world_result' = NoWorldResult
    /\ UNCHANGED <<chapterVars, factoryVars, active_story_sessions, run, follow,
                   memory_client, serviceVars, now>>

\* class MemoryType, in the order of its members
MemoryType ==
    <<"world_setting", "role_info", "story_progress", "user_preference",
      "interaction_history", "learning_outcome">>

MemoryTypes == {MemoryType[i] : i \in 1..Len(MemoryType)}

\* the memory_types argument: None, or a list whose first member is the filter
NoFilter == "None"
SearchFilters == {NoFilter, "world_setting", "role_info"}

Request(user_id, query, story_id, memory_type) ==
    [user_id |-> user_id, query |-> query, story_id |-> story_id,
     memory_type |-> memory_type]

NoRequest == Request("none", "none", "none", "none")

NoSearchCall ==
    [request |-> NoRequest, hit |-> FALSE, cached_for |-> NoRequest,
     result |-> <<>>]

\* the request that filled each entry, after a search_relevant_memories call
CachedFor(origin, cache, client, req, found, time) ==
    LET key == CacheKey(req.user_id, req.query, req.story_id)
        r == SearchRelevantMemories(cache, client, key, found, time)
    IN IF r.backing /\ ~found.raises THEN [origin EXCEPT ![key] = req] ELSE origin

\* search_relevant_memories(query, user_id, story_id, memory_types)
SearchRelevant(t) ==
    /\ run[t].node = "idle"
    /\ \E tr \in SearchTriples, ty \in SearchFilters, found \in BackingOutcomes :
         LET u == tr[1]
             q == tr[2]
             s == tr[3]
             req == Request(u, q, s, ty)
             key == CacheKey(u, q, s)
             r == SearchRelevantMemories(memory_cache, memory_client, key, found, now)
         IN /\ memory_cache' = r.cache
            /\ cached_for' = CachedFor(cached_for, memory_cache, memory_client,
                                       req, found, now)
            /\ search_call' = [request |-> req, hit |-> r.hit,
                               cached_for |-> cached_for[key], result |-> r.result]
    /\ UNCHANGED <<chapterVars, factoryVars, graphVars, memory_client, now, mem_result,
                   memory_stats, intentVars, engagementVars, roleVars, socketVars,
                   monitorVars, worldVars, historyVars, listingVars,
                   constructionVars, finalVars>>

\* the answers of a backing store that does not raise (a search that raises
\* makes search_relevant_memories return [], as an empty answer does)
StoreAnswers == {o \in BackingOutcomes : ~o.raises}

NoStatistics ==
    [user_id |-> "none", client |-> "none", searches |-> 0,
     user_memories |-> [ty \in MemoryTypes |-> 0],
     found |-> [ty \in MemoryTypes |-> 0]]

\* the loop `for memory_type in MemoryType` of get_memory_statistics, from
\* its i-th member on: [cache, origin, searches, user_memories]
RECURSIVE StatisticsLoop(_, _, _, _, _, _, _)
StatisticsLoop(i, acc, cache, origin, user_id, found, time) ==
    IF i > Len(MemoryType) THEN [acc EXCEPT !.cache = cache, !.origin = origin]
    ELSE LET ty == MemoryType[i]
             req == Request(user_id, StatisticsQuery, "", ty)
             key == CacheKey(user_id, StatisticsQuery, "")
             r == SearchRelevantMemories(cache, memory_client, key, found[ty], time)
         IN StatisticsLoop(i + 1,
                [acc EXCEPT !.searches = @ + (IF r.backing THEN 1 ELSE 0),
                            !.user_memories[ty] = Len(r.result)],
                r.cache,
                CachedFor(origin, cache, memory_client, req, found[ty], time),
                user_id, found, time)

\* get_memory_statistics(user_id); found[ty] is what the backing store
\* answers to the search filtered on ty
GetMemoryStatistics(t) ==
    /\ run[t].node = "idle"
    /\ \E u \in UserIds, found \in [MemoryTypes -> StoreAnswers] :
         LET start == [cache |-> memory_cache, origin |-> cached_for, searches |-> 0,
                       user_memories |-> [ty \in MemoryTypes |-> 0]]
             r == StatisticsLoop(1, start, memory_cache, cached_for, u, found, now)
         IN /\ memory_cache' = r.cache
            /\ cached_for' = r.origin
            /\ memory_stats' =
                 [user_id |-> u, client |-> memory_client,
                  searches |-> r.searches, user_memories |-> r.user_memories,
                  found |-> [ty \in MemoryTypes |-> Len(found[ty].list)]]
    /\ UNCHANGED <<chapterVars, factoryVars, graphVars, memory_client, now, mem_result,
                   search_call, intentVars, engagementVars, roleVars, socketVars,
                   monitorVars, worldVars, historyVars, listingVars,
                   constructionVars, finalVars>>

(***************************************************************************)
(* StoryMemoryManager.__init__ (core/memory/mem0.py): _init_memory_client,  *)
(* _clean_and_retry_mem0_init and _init_memory_only_client call each other. *)
(* A call in return position is modelled as taking over the caller's frame. *)
(***************************************************************************)
\* what Memory.from_config and the test search do: they succeed, raise the
\* dimension error ("shapes ... not aligned"), or raise another error
LibraryOutcomes == {"ok", "shapes", "other"}

Frame(fn) == [fn |-> fn, pc |-> "call", original |-> 0, client |-> "none"]

Top == init_stack[Len(init_stack)]

Constructing(fn, pc) ==
    /\ init_stack # <<>>
    /\ Top.fn = fn
    /\ Top.pc = pc

\* `return self.<fn>()`
TailCall(fn) ==
    /\ init_stack' = [init_stack EXCEPT ![Len(init_stack)] = Frame(fn)]
    /\ UNCHANGED <<memory_client, collection_name>>

\* `return client` / `return None`: to _clean_and_retry_mem0_init, or to
\* __init__, which assigns self.memory_client
ReturnClient(client) ==
    LET n == Len(init_stack)
    IN /\ IF n = 1
          THEN /\ init_stack' = <<>>
               /\ memory_client' = client
          ELSE /\ init_stack' = [SubSeq(init_stack, 1, n - 1) EXCEPT
                                   ![n - 1].pc = "returned", ![n - 1].client = client]
               /\ UNCHANGED memory_client
       /\ UNCHANGED collection_name

ConstructionFrame ==
    UNCHANGED <<chapterVars, factoryVars, graphVars, memory_cache, now, mem_result,
                mem0_lib, intentVars, engagementVars, roleVars, socketVars,
                monitorVars, worldVars, historyVars, listingVars, searchVars,
                finalVars>>

\* _init_memory_client
InitMemoryClient ==
    /\ Constructing("_init_memory_client", "call")
    /\ IF ~mem0_lib.available
       THEN ReturnClient("none") /\ UNCHANGED init_attempts
       ELSE IF ~mem0_lib.enabled
       THEN TailCall("_init_memory_only_client") /\ UNCHANGED init_attempts
       ELSE /\ Len(init_attempts) < MaxAttempts
            /\ init_attempts' = Append(init_attempts, collection_name)
            /\ \E outcome \in LibraryOutcomes :
                 CASE outcome = "ok" -> ReturnClient("mem0")
                   [] outcome = "shapes" -> TailCall("_clean_and_retry_mem0_init")
                   [] OTHER -> TailCall("_init_memory_only_client")
    /\ ConstructionFrame

\* _clean_and_retry_mem0_init, up to its call of _init_memory_client
CleanAndRetry ==
    /\ Constructing("_clean_and_retry_mem0_init", "call")
    /\ collection_name < MaxSuffixes
    /\ collection_name' = collection_name + 1
    /\ init_stack' =
         Append([init_stack EXCEPT ![Len(init_stack)].pc = "retrying",
                                   ![Len(init_stack)].original = collection_name],
                Frame("_init_memory_client"))
    /\ UNCHANGED <<memory_client, init_attempts>>
    /\ ConstructionFrame

\* _clean_and_retry_mem0_init, from the return of _init_memory_client on
CleanAndRetryReturn ==
    /\ Constructing("_clean_and_retry_mem0_init", "returned")
    /\ collection_name' = Top.original
    /\ IF Top.client # "none"
       THEN LET n == Len(init_stack)
            IN IF n = 1
               THEN init_stack' = <<>> /\ memory_client' = Top.client
               ELSE /\ init_stack' = [SubSeq(init_stack, 1, n - 1) EXCEPT
                                        ![n - 1].pc = "returned",
                                        ![n - 1].client = Top.client]
                    /\ UNCHANGED memory_client
       ELSE /\ init_stack' =
                 [init_stack EXCEPT ![Len(init_stack)] = Frame("_init_memory_only_client")]
            /\ UNCHANGED memory_client
    /\ UNCHANGED init_attempts
    /\ ConstructionFrame

\* _init_memory_only_client
InitMemoryOnlyClient ==
    /\ Constructing("_init_memory_only_client", "call")
    /\ IF ~mem0_lib.available
       THEN ReturnClient("none")
       ELSE \E outcome \in LibraryOutcomes :
              CASE outcome = "ok" -> ReturnClient("mem0")
                [] outcome = "shapes" -> TailCall("_clean_and_retry_mem0_init")
                [] OTHER -> ReturnClient("none")
    /\ UNCHANGED init_attempts
    /\ ConstructionFrame

\* time passes
Tick ==
    /\ now + TickSeconds <= MaxTicks * TickSeconds
    /\ now' = now + TickSeconds
    /\ UNCHANGED <<chapterVars, factoryVars, graphVars,
                   memory_client, serviceVars, memory_cache, mem_result>>

(***************************************************************************)
(* IntentAgent.detect_intent                                               *)
(***************************************************************************)
\* A text is a sequence of characters; every Chinese character is written
\* as one token (its pinyin), " " is the blank, "A"/"a" a cased letter.
wakeup_words ==
    << <<"bei", "bei", "ni", "hao">>, <<"xiao", "bei", "bei">>,
       <<"jiang", "gu", "shi">>, <<"bei", "bei">>,
       <<"kai", "shi3", "you", "xi">>,
       <<"wo", "men", "lai", "wan", "you", "xi">>,
       <<"wo", "xiang", "ting", "gu", "shi">>,
       <<"kai", "shi3", "jiang", "gu", "shi">>,
       <<"ni", "hao", "bei", "bei">> >>

story_keywords ==
    << <<"gu", "shi">>, <<"chuang", "jian">>, <<"shi4", "jie", "guan">>,
       <<"jue", "se">>, <<"ban", "yan">>, <<"mo", "fa">>, <<"mao", "xian">>,
       <<"tai", "kong">>, <<"hai", "yang">>, <<"sen", "lin">>,
       <<"kong3", "long">>, <<"gong", "zhu">>, <<"cheng", "bao">>,
       <<"kai", "shi3">>, <<"jiang", "gu", "shi">>, <<"you", "xi">>,
       <<"ban", "yan">>, <<"xu", "gou">>, <<"xiang", "xiang4">>,
       <<"tong", "hua">> >>

chat_keywords ==
    << <<"ni", "hao">>, <<"hai1">>, <<"zao", "shang", "hao">>,
       <<"wan3", "shang", "hao">>, <<"zai", "jian4">>, <<"xie", "xie">>,
       <<"jin", "tian">>, <<"ming", "tian">>, <<"zuo", "tian">>,
       <<"xian4", "zai4">>, <<"zen", "me", "yang4">>, <<"ru", "he">>,
       <<"kai", "xin">>, <<"nan", "guo">>, <<"sheng", "qi">>,
       <<"hai4", "pa">>, <<"xi3", "huan">>, <<"ai">>, <<"peng", "you3">>,
       <<"xue", "xiao4">>, <<"jia", "ting2">>, <<"xue", "xi2">>,
       <<"bang", "zhu4">> >>

story_types ==
    << <<"mo", "fa">>, <<"tai", "kong">>, <<"hai", "yang">>, <<"sen", "lin">>,
       <<"kong3", "long">>, <<"gong", "zhu">>, <<"dong", "wu">> >>

IntentType == {"chat", "story"}

\* word in content
Contains(content, word) ==
    \E i \in 0..(Len(content) - Len(word)) :
        SubSeq(content, i + 1, i + Len(word)) = word

\* str.lower() on the alphabet of the model
Lower(content) ==
    [i \in 1..Len(content) |-> IF content[i] = "A" THEN "a" ELSE content[i]]

\* re.sub(r"\s+", " ", content.strip()): no leading or trailing blank, runs
\* of blanks become one blank
RECURSIVE Strip(_)
Strip(content) ==
    IF content = <<>> THEN <<>>
    ELSE IF Head(content) = " " THEN Strip(Tail(content))
    ELSE IF content[Len(content)] = " "
         THEN Strip(SubSeq(content, 1, Len(content) - 1))
    ELSE content

RECURSIVE Collapse(_)
Collapse(content) ==
    IF Len(content) < 2 THEN content
    ELSE IF content[1] = " " /\ content[2] = " " THEN Collapse(Tail(content))
    ELSE <<content[1]>> \o Collapse(Tail(content))

PreprocessContent(content) == Lower(Collapse(Strip(content)))

CheckWakeupWords(content) ==
    \E i \in 1..Len(wakeup_words) : Contains(content, Lower(wakeup_words[i]))

\* sum(1 for keyword in keywords if keyword in content): a keyword listed
\* twice counts twice
KeywordScore(keywords, content) ==
    Cardinality({i \in 1..Len(keywords) : Contains(content, keywords[i])})

StoryTypeTag(word) == [tag |-> "story_type", value |-> word]
StoryIntention == [tag |-> "story_intention", value |-> <<>>]
ChatIntention == [tag |-> "chat_intention", value |-> <<>>]

RECURSIVE StoryTypeTags(_, _)
StoryTypeTags(i, content) ==
    IF i > Len(story_types) THEN <<>>
    ELSE (IF Contains(content, story_types[i])
          THEN <<StoryTypeTag(story_types[i])>> ELSE <<>>)
         \o StoryTypeTags(i + 1, content)

ExtractEntities(content) ==
    StoryTypeTags(1, content)
    \o (IF KeywordScore(story_keywords, content) > 0 THEN <<StoryIntention>> ELSE <<>>)
    \o (IF KeywordScore(chat_keywords, content) > 0 THEN <<ChatIntention>> ELSE <<>>)

ClassifyByKeywords(content) ==
    IF KeywordScore(story_keywords, content) > KeywordScore(chat_keywords, content)
    THEN "story" ELSE "chat"

\* Python floats: a number in units of 1/ConfScale, or nan
ConfScale == 200
Tenths(n) == n * (ConfScale \div 10)
Num(v) == [nan |-> FALSE, v |-> v]
NaN == [nan |-> TRUE, v |-> 0]
FAdd(a, b) == IF a.nan \/ b.nan THEN NaN ELSE Num(a.v + b.v)
FHalf(a) == IF a.nan THEN NaN ELSE Num(a.v \div 2)
FGt(a, b) == ~a.nan /\ ~b.nan /\ a.v > b.v
FGe(a, b) == ~a.nan /\ ~b.nan /\ a.v >= b.v
\* the builtins max(a, b) and min(a, b): the first argument unless the
\* second compares greater (smaller); every comparison with nan is false
PyMax(a, b) == IF FGt(b, a) THEN b ELSE a
PyMin(a, b) == IF FGt(a, b) THEN b ELSE a

\* what the LLM call of _ai_intent_analysis does: it raises, it answers
\* text that is no JSON object with a number in "confidence", or it answers
\* a JSON object with a label and a confidence
AiLabels == {"chat", "story", "unknown"}
AiConfidences ==
    {Num(Tenths(n)) : n \in {-10, 0, 3, 5, 7, 8, 10, 25}} \cup {NaN}
AiReplies ==
    {[kind |-> k, label |-> "chat", confidence |-> Num(0)] : k \in {"raises", "not_json"}}
    \cup {[kind |-> "json", label |-> l, confidence |-> c] :
            l \in AiLabels, c \in AiConfidences}

AiIntentAnalysis(reply) ==
    CASE reply.kind = "raises" ->
            [primary_intent |-> "chat", confidence |-> Num(Tenths(3))]
      [] reply.kind = "not_json" ->
            [primary_intent |-> "chat", confidence |-> Num(Tenths(5))]
      [] reply.kind = "json" ->
            [primary_intent |-> reply.label, confidence |-> reply.confidence]

DetermineFinalIntentMut(keyword_intent, ai_analysis, entities, wakeup_detected) ==
    IF wakeup_detected THEN "story"
    ELSE IF FGe(ai_analysis.confidence, Num(Tenths(8)))
            /\ ai_analysis.primary_intent \in IntentType
    THEN ai_analysis.primary_intent
    ELSE IF \E i \in 1..Len(entities) :
               entities[i] \in {StoryTypeTag(<<"mo", "fa">>),
                                StoryTypeTag(<<"tai", "kong">>), StoryIntention}
         THEN "story"
    ELSE IF \E i \in 1..Len(entities) : entities[i] = ChatIntention THEN "chat"
    ELSE keyword_intent
DetermineFinalIntent(keyword_intent, ai_analysis, entities, wakeup_detected) ==
    IF FGe(ai_analysis.confidence, Num(Tenths(8)))
       /\ ai_analysis.primary_intent \in IntentType
    THEN ai_analysis.primary_intent
    ELSE IF wakeup_detected THEN "story"
    ELSE IF \E i \in 1..Len(entities) :
               entities[i] \in {StoryTypeTag(<<"mo", "fa">>),
                                StoryTypeTag(<<"tai", "kong">>)}
         THEN "story"
    ELSE IF \E i \in 1..Len(entities) : entities[i] = StoryIntention THEN "story"
    ELSE IF \E i \in 1..Len(entities) : entities[i] = ChatIntention THEN "chat"
    ELSE keyword_intent

CalculateConfidence(final_intent, keyword_intent, ai_analysis, entities) ==
    LET base == IF final_intent = keyword_intent
                THEN Num(Tenths(5) + Tenths(2)) ELSE Num(Tenths(5))
        mixed == FHalf(FAdd(base, ai_analysis.confidence))
        entity_bonus == Num(Min(Len(entities) * Tenths(1), Tenths(3)))
    IN  PyMin(PyMax(FAdd(mixed, entity_bonus), Num(Tenths(1))), Num(Tenths(10)))

\* the texts of the model: up to MaxFragments fragments in a row
Fragments ==
    { <<"bei", "bei">>, <<"jiang", "gu", "shi">>, <<"ni", "hao">>,
      <<"mo", "fa">>, <<"jin", "tian">>, <<"kong3", "long">>,
      <<"ban", "yan">>, <<"dong", "wu">>, <<"xiao">>, <<" ">>, <<"A">> }

RECURSIVE Texts(_)
Texts(n) ==
    IF n = 0 THEN {<<>>}
    ELSE Texts(n - 1) \cup {t \o f : t \in Texts(n - 1), f \in Fragments}

\* content: a str, or an object without strip()
Contents ==
    {[is_str |-> TRUE, text |-> t] : t \in Texts(MaxFragments)}
    \cup {[is_str |-> FALSE, text |-> <<>>]}

NoIntentResult ==
    [intent |-> "none", confidence |-> Num(0), wakeup_detected |-> FALSE,
     entities |-> <<>>, error |-> FALSE]

NoIntentCall ==
    [phase |-> "none", content |-> [is_str |-> TRUE, text |-> <<>>],
     reply |-> [kind |-> "raises", label |-> "chat", confidence |-> Num(0)],
     result |-> NoIntentResult]

\* detect_intent(content): steps 1-8, or the except branch
DetectIntentResult(content, reply) ==
    IF ~content.is_str
    THEN [intent |-> "chat", confidence |-> Num(Tenths(5)),
          wakeup_detected |-> FALSE, entities |-> <<>>, error |-> TRUE]
    ELSE LET content_clean == PreprocessContent(content.text)
             wakeup_detected == CheckWakeupWords(content_clean)
             entities == ExtractEntities(content_clean)
             keyword_intent == ClassifyByKeywords(content_clean)
             ai_analysis == AiIntentAnalysis(reply)
             final_intent == DetermineFinalIntent(keyword_intent, ai_analysis,
                                                  entities, wakeup_detected)
         IN  [intent |-> final_intent,
              confidence |-> CalculateConfidence(final_intent, keyword_intent,
                                                 ai_analysis, entities),
              wakeup_detected |-> wakeup_detected,
              entities |-> entities, error |-> FALSE]

DetectIntent ==
    /\ intent_call.phase = "called"
    /\ intent_call' = [intent_call EXCEPT
                         !.phase = "returned",
                         !.result = DetectIntentResult(intent_call.content,
                                                       intent_call.reply)]
    /\ UNCHANGED <<chapterVars, factoryVars, graphVars, memoryVars, engagementVars, roleVars,
                   socketVars, monitorVars, restVars>>

\* the arguments of _determine_final_intent: what _extract_entities can put
\* in its list, and what _ai_intent_analysis can return
EntityTags ==
    {StoryTypeTag(<<"mo", "fa">>), StoryTypeTag(<<"tai", "kong">>),
     StoryTypeTag(<<"kong3", "long">>), StoryIntention, ChatIntention}

EntityLists ==
    {<<>>} \cup {<<a>> : a \in EntityTags} \cup {<<a, b>> : a, b \in EntityTags}

AiAnalyses ==
    {[primary_intent |-> l, confidence |-> c] : l \in AiLabels, c \in AiConfidences}

NoFinalCall ==
    [phase |-> "none", keyword_intent |-> "chat",
     ai_analysis |-> [primary_intent |-> "chat", confidence |-> Num(0)],
     entities |-> <<>>, wakeup_detected |-> FALSE, result |-> "none"]

DetermineFinalIntentCall ==
    /\ final_call.phase = "called"
    /\ final_call' = [final_call EXCEPT
                        !.phase = "returned",
                        !.result = DetermineFinalIntent(final_call.keyword_intent,
                                                        final_call.ai_analysis,
                                                        final_call.entities,
                                                        final_call.wakeup_detected)]
    /\ UNCHANGED <<priorVars, worldVars, historyVars, listingVars, searchVars,
                   constructionVars>>

InitFinalCalls ==
    final_call \in {[NoFinalCall EXCEPT !.phase = "called", !.keyword_intent = k,
                                        !.ai_analysis = a, !.entities = e,
                                        !.wakeup_detected = w] :
                       k \in IntentType, a \in AiAnalyses, e \in EntityLists,
                       w \in BOOLEAN}

InitIntentCalls ==
    intent_call \in {[NoIntentCall EXCEPT !.phase = "called", !.content = c,
                                          !.reply = r] :
                        c \in Contents, r \in AiReplies}

(***************************************************************************)
(* ChapterManager._calculate_engagement_score as a function of its         *)
(* arguments                                                               *)
(***************************************************************************)
LongAction == 20

\* a role response by its "emotion" entry: absent, RoleEmotion.NEUTRAL, or
\* another emotion
ResponseEmotions == {"none", "neutral", "happy"}

RECURSIVE ResponseLists(_)
ResponseLists(n) ==
    IF n = 0 THEN {<<>>}
    ELSE ResponseLists(n - 1)
         \cup {r \o <<e>> : r \in ResponseLists(n - 1), e \in ResponseEmotions}

\* response.get("emotion") and response["emotion"] != RoleEmotion.NEUTRAL
Emotional(responses) ==
    Cardinality({i \in 1..Len(responses) : responses[i] \notin {"none", "neutral"}})

CalculateEngagementScore(ch, user_action_len, responses) ==
    EngagementScore(ch, user_action_len > LongAction, Len(responses),
                    Emotional(responses))

\* the progress of the chapters create_chapter and advance_chapter produce
Progresses ==
    {[NoChapter EXCEPT !.state = "active", !.objectives = p[1],
                       !.total_steps = p[1], !.current_step = p[2]] :
        p \in {q \in (1..(1 + MaxGoals)) \X (0..(1 + MaxGoals)) : q[2] <= q[1]}}

\* lengths of the user action: two of at most LongAction characters, two longer
ActionLengths == {0, LongAction, LongAction + 1, 2 * LongAction}

NoEngagementCall ==
    [phase |-> "none", chapter |-> NoChapter, responses |-> <<>>,
     short |-> 0, long |-> 0, score_short |-> 0, score_long |-> 0]

\* the call with the shorter action, then the call with the longer one, on
\* the same chapter progress and the same role responses
CalculateEngagementShort ==
    /\ engagement_call.phase = "called"
    /\ engagement_call' =
          [engagement_call EXCEPT
              !.phase = "once",
              !.score_short = CalculateEngagementScore(
                  engagement_call.chapter, engagement_call.short,
                  engagement_call.responses)]
    /\ UNCHANGED <<chapterVars, factoryVars, graphVars, memoryVars, intentVars, roleVars,
                   socketVars, monitorVars, restVars>>

CalculateEngagementLong ==
    /\ engagement_call.phase = "once"
    /\ engagement_call' =
          [engagement_call EXCEPT
              !.phase = "returned",
              !.score_long = CalculateEngagementScore(
                  engagement_call.chapter, engagement_call.long,
                  engagement_call.responses)]
    /\ UNCHANGED <<chapterVars, factoryVars, graphVars, memoryVars, intentVars, roleVars,
                   socketVars, monitorVars, restVars>>

InitEngagementCalls ==
    engagement_call \in
        {[NoEngagementCall EXCEPT !.phase = "called", !.chapter = ch,
                                  !.responses = r, !.short = a, !.long = b] :
            ch \in Progresses, r \in ResponseLists(MaxResponses),
            a \in {n \in ActionLengths : n <= LongAction},
            b \in {n \in ActionLengths : n > LongAction}}

(***************************************************************************)
(* RoleFactory called directly, and the role part of one story turn:        *)
(* story_interactive_node awaits role_factory.get_role(role_id) and then    *)
(* respond_to_message of the agent it was handed.  Every await inside       *)
(* respond_to_message is a point where the coroutine may be suspended.      *)
(***************************************************************************)
AgentIds == 1..MaxAgents

\* a task without a DynamicRoleAgent in hand; role_id and
\* conversation_history are the fields of the object it holds, message is
\* what the safety agent makes of the message it was called with
NoRoleCall ==
    [at |-> "idle", role |-> 0, agent |-> 0, role_id |-> 0,
     conversation_history |-> 0, message |-> "none"]

\* no respond_to_message call has returned yet
NoRespondResult ==
    [success |-> "none", response |-> "none", message |-> "none",
     checked |-> "none", history_before |-> 0,
     conversation_history |-> 0]

Free(t) == tpc[t] = "idle" /\ rpc[t].at = "idle"

Registered(r) == r \in RoleIds /\ factory_roles[r] # "none"

RoleState(r) == IF r \in RoleIds THEN factory_roles[r] ELSE "none"

\* outcome of a factory or session call, kept like that of a chapter call
Returned(op, id, pre, ret, unchanged) ==
    [NoResult EXCEPT !.op = op, !.chapter = id, !.pre = pre, !.ret = ret,
                     !.unchanged = unchanged]

\* create_role_agent
CreateRoleAgent(t) ==
    /\ Free(t) /\ FactoryLockFree
    /\ next_role < MaxRoles
    /\ factory_roles' = RegisterAll(factory_roles, CreatedIds(1))
    /\ TrackInstances
    /\ UNCHANGED <<factory_lock, factory_result, role_listing>>
    /\ next_role' = next_role + 1
    /\ last' = Returned("create_role_agent", next_role + 1, "none", "id", FALSE)
    /\ UNCHANGED <<active_chapters, next_chapter, chapter_lock, tpc, targ, pair,
                   graphVars, memoryVars, serviceVars>>

\* get_role: DynamicRoleAgent(instance.role_config) for a registered id, a
\* new object with its own thread_lock at every call; None otherwise
GetRoleReturnsMut(r) == TRUE
GetRoleReturns(r) == Registered(r)

GetRole(t) ==
    /\ Free(t) /\ FactoryLockFree
    /\ \E r \in RoleIds \cup {UnknownRole} :
         last' = Returned("get_role", r, RoleState(r),
                          IF GetRoleReturns(r) THEN "agent" ELSE "None", TRUE)
    /\ UNCHANGED <<active_chapters, next_chapter, chapter_lock, tpc, targ, pair,
                   factoryVars, graphVars, memoryVars, serviceVars>>

\* ids in active_roles
RegisteredIds == {r \in RoleIds : factory_roles[r] # "none"}

\* cleanup_inactive_roles: `inactive_time > max_inactive_minutes * 60`
IsInactive(r, max_inactive_minutes) ==
    now - role_instances[r].last_activity > max_inactive_minutes * 60

\* `self.terminate_role(role_id)` without await makes a coroutine object that
\* is never run: the tables stay as they are
UnawaitedTerminate(reg, ids) == reg

\* thresholds passed to cleanup_inactive_roles; 30 is the default
CleanupMinutes == {1, 5, 30}

\* cleanup_inactive_roles: counts one per role it called terminate_role for
CleanupInactiveRoles(t) ==
    /\ Free(t) /\ FactoryLockFree
    /\ \E max_inactive_minutes \in CleanupMinutes :
         LET roles_to_remove ==
                {r \in RegisteredIds : IsInactive(r, max_inactive_minutes)}
             reg == UnawaitedTerminate(factory_roles, roles_to_remove)
         IN /\ factory_roles' = reg
            /\ TrackInstances
            /\ factory_result' =
                  [NoFactoryResult EXCEPT
                      !.op = "cleanup_inactive_roles",
                      !.count = Cardinality(roles_to_remove),
                      !.inactive = roles_to_remove,
                      !.before = RegisteredIds,
                      !.after = {r \in RoleIds : reg[r] # "none"}]
    /\ UNCHANGED <<chapterVars, next_role, factory_lock, role_listing,
                   graphVars, memoryVars, serviceVars>>

\* get_factory_statistics: total_roles and the number of instances per state
GetFactoryStatistics(t) ==
    /\ Free(t) /\ FactoryLockFree
    /\ factory_result' =
          [NoFactoryResult EXCEPT
              !.op = "get_factory_statistics",
              !.count = Cardinality({r \in RoleIds : factory_roles[r] # "none"}),
              !.state_distribution =
                  [st \in AgentState |->
                      Cardinality({r \in RoleIds : factory_roles[r] = st})]]
    /\ UNCHANGED <<chapterVars, factory_roles, next_role, role_instances,
                   role_configs, factory_lock, role_listing,
                   graphVars, memoryVars, serviceVars>>

\* list_active_roles: the roles the loop asks get_role_info about
Listed == {r \in RoleIds : factory_roles[r] \in {"created", "active"}}

\* async with self.factory_lock: roles = []
ListActiveRoles(t) ==
    /\ Free(t) /\ FactoryLockFree
    /\ factory_lock' = t
    /\ role_listing' = {}
    /\ tpc' = [tpc EXCEPT ![t] = "list_roles"]
    /\ UNCHANGED <<active_chapters, next_chapter, chapter_lock, targ, last, pair,
                   factory_roles, next_role, role_instances, role_configs, factory_result,
                   graphVars, memoryVars, serviceVars>>

\* return roles: the loop is through and the lock is released
ListReturn(t) ==
    /\ tpc[t] = "list_roles"
    /\ Listed \subseteq role_listing
    /\ factory_result' =
          [NoFactoryResult EXCEPT !.op = "list_active_roles",
                                  !.infos = role_listing]
    /\ factory_lock' = "free"
    /\ role_listing' = {}
    /\ tpc' = [tpc EXCEPT ![t] = "idle"]
    /\ UNCHANGED <<active_chapters, next_chapter, chapter_lock, targ, last, pair,
                   factory_roles, next_role, role_instances, role_configs,
                   graphVars, memoryVars, serviceVars>>

\* get_role_info: "total_conversations": len(instance.conversation_history)
RoleInfo(r) ==
    [NoFactoryResult EXCEPT
        !.op = "get_role_info", !.role = r,
        !.total_conversations = role_instances[r].conversation_history]

\* get_role_info is awaited by a caller outside the factory, or by the loop
\* of list_active_roles (`role_info = await self.get_role_info(role_id)`,
\* `if role_info: roles.append(role_info)`).  Either way it enters
\* `async with self.factory_lock` first, and asyncio.Lock is not reentrant.
GetRoleInfo(t) ==
    /\ Free(t) \/ tpc[t] = "list_roles"
    /\ FactoryLockFree
    /\ IF tpc[t] = "list_roles"
       THEN /\ \E r \in Listed \ role_listing :
                 role_listing' = role_listing \cup {r}
            /\ UNCHANGED <<last, factory_result>>
       ELSE /\ \E r \in RoleIds \cup {UnknownRole} :
                 /\ last' = Returned("get_role_info", r, RoleState(r),
                                     IF Registered(r) THEN "info" ELSE "None", TRUE)
                 /\ factory_result' =
                        IF Registered(r) THEN RoleInfo(r)
                        ELSE [NoFactoryResult EXCEPT !.op = "get_role_info",
                                                     !.role = r]
            /\ UNCHANGED role_listing
    /\ UNCHANGED <<active_chapters, next_chapter, chapter_lock, tpc, targ, pair,
                   factory_roles, next_role, role_instances, role_configs, factory_lock,
                   graphVars, memoryVars, serviceVars>>

\* pause_role, resume_role, terminate_role
RoleTransition(t, op, r, reg) ==
    /\ Free(t) /\ FactoryLockFree
    /\ factory_roles' = IF Registered(r) THEN reg ELSE factory_roles
    /\ TrackInstances
    /\ UNCHANGED <<factory_lock, factory_result, role_listing>>
    /\ last' = Returned(op, r, RoleState(r),
                        IF Registered(r) THEN "true" ELSE "false",
                        ~Registered(r) \/ reg = factory_roles)
    /\ UNCHANGED <<active_chapters, next_chapter, chapter_lock, tpc, targ, pair,
                   next_role, graphVars, memoryVars, serviceVars>>

PauseRole(t) ==
    \E r \in RoleIds \cup {UnknownRole} :
        RoleTransition(t, "pause_role", r, PauseAll(factory_roles, <<r>>))

ResumeRole(t) ==
    \E r \in RoleIds \cup {UnknownRole} :
        RoleTransition(t, "resume_role", r, ResumeAll(factory_roles, <<r>>))

TerminateRole(t) ==
    \E r \in RoleIds \cup {UnknownRole} :
        RoleTransition(t, "terminate_role", r, TerminateAll(factory_roles, <<r>>))

\* create_chapter(story_id, ...) is called for one story throughout
ChapterStory == "s1"

\* story ids passed to list_story_chapters: that story, and one without
\* chapters
ListedStories == {ChapterStory, "s2"}

\* `if chapter.story_id == story_id`, over active_chapters
StoryChapters(story_id) ==
    {c \in ChapterIds : Exists(c) /\ ChapterStory = story_id}

NoListing == [at |-> "none", story_id |-> "none", chapters |-> {}]

\* list_story_chapters: async with self.chapter_lock: chapters = []
ListStoryChapters(t) ==
    /\ Free(t) /\ LockFree
    /\ \E story_id \in ListedStories :
         chapter_listing' =
            [at |-> "listing", story_id |-> story_id, chapters |-> {}]
    /\ chapter_lock' = t
    /\ tpc' = [tpc EXCEPT ![t] = "list_chapters"]
    /\ UNCHANGED <<active_chapters, next_chapter, targ, last, pair,
                   factoryVars, graphVars, memoryVars, intentVars,
                   engagementVars, roleVars, socketVars, monitorVars,
                   worldVars, historyVars, searchVars, constructionVars, finalVars>>

\* return chapters: the loop is through and the lock is released
ListStoryChaptersReturn(t) ==
    /\ tpc[t] = "list_chapters"
    /\ StoryChapters(chapter_listing.story_id) \subseteq chapter_listing.chapters
    /\ chapter_listing' = [chapter_listing EXCEPT !.at = "returned"]
    /\ chapter_lock' = "free"
    /\ tpc' = [tpc EXCEPT ![t] = "idle"]
    /\ UNCHANGED <<active_chapters, next_chapter, targ, last, pair,
                   factoryVars, graphVars, memoryVars, intentVars,
                   engagementVars, roleVars, socketVars, monitorVars,
                   worldVars, historyVars, searchVars, constructionVars, finalVars>>

\* get_chapter_summary is awaited by a caller outside the manager, or by the
\* loop of list_story_chapters (`summary = await
\* self.get_chapter_summary(chapter_id)`, `if summary:
\* chapters.append(summary)`).  Either way it enters `async with
\* self.chapter_lock` first, and asyncio.Lock is not reentrant.
GetChapterSummary(t) ==
    /\ Free(t) \/ tpc[t] = "list_chapters"
    /\ LockFree
    /\ IF tpc[t] = "list_chapters"
       THEN /\ \E c \in StoryChapters(chapter_listing.story_id)
                            \ chapter_listing.chapters :
                 chapter_listing' =
                    [chapter_listing EXCEPT !.chapters = @ \cup {c}]
            /\ UNCHANGED last
       ELSE /\ \E c \in ChapterIds \cup {UnknownChapter} :
                 last' = Returned("get_chapter_summary", c, Chapter(c).state,
                                  IF Exists(c) THEN "summary" ELSE "None", TRUE)
            /\ UNCHANGED chapter_listing
    /\ UNCHANGED <<active_chapters, next_chapter, chapter_lock, tpc, targ, pair,
                   factoryVars, graphVars, memoryVars, intentVars,
                   engagementVars, roleVars, socketVars, monitorVars,
                   worldVars, historyVars, searchVars, constructionVars, finalVars>>

\* get_session_info
GetSessionInfo(t) ==
    /\ Free(t)
    /\ \E s \in SessionIds \cup {UnknownSession} :
         last' = Returned("get_session_info", s,
                          IF Session(s).exists THEN "session" ELSE "none",
                          IF Session(s).exists THEN "info" ELSE "None", TRUE)
    /\ UNCHANGED <<active_chapters, next_chapter, chapter_lock, tpc, targ, pair,
                   factoryVars, graphVars, memoryVars, serviceVars>>

\* story_interactive_node: role_agent_instance = await get_role(role_id).
\* The object handed out is new: no other task holds it or its lock.
NewAgent == CHOOSE a \in AgentIds : agent_locks[a] = "unused"

\* DynamicRoleAgent.__init__: role_id = f"role_{config.name}_{uuid4().hex[:8]}"
\* is an id of its own, that of no registered instance and of no other
\* object in use (ids above MaxRoles, one per object)
ObjectRoleId(r, a) == MaxRoles + a

\* DynamicRoleAgent.__init__: self.conversation_history = []
NewHistoryMut(r) == role_instances[r].conversation_history + 1
NewHistory(r) == 0

StoryGetRole(t) ==
    /\ Free(t) /\ FactoryLockFree
    /\ \E r \in RoleIds \cup {UnknownRole} :
         IF GetRoleReturns(r)
         THEN /\ \E a \in AgentIds : agent_locks[a] = "unused"
              /\ agent_locks' = [agent_locks EXCEPT ![NewAgent] = "free"]
              /\ rpc' = [rpc EXCEPT ![t] =
                            [at |-> "has_agent", role |-> r, agent |-> NewAgent,
                             role_id |-> ObjectRoleId(r, NewAgent),
                             conversation_history |-> NewHistory(r),
                             message |-> "none"]]
         ELSE UNCHANGED <<agent_locks, rpc>>
    /\ UNCHANGED respond_result
    /\ UNCHANGED <<chapterVars, factoryVars, graphVars, memoryVars,
                   intentVars, engagementVars, socketVars, monitorVars, restVars>>

\* respond_to_message: async with self.thread_lock
AcquireThreadLock(t) ==
    /\ rpc[t].at = "has_agent"
    /\ agent_locks[rpc[t].agent] = "free"
    /\ agent_locks' = [agent_locks EXCEPT ![rpc[t].agent] = t]
    /\ rpc' = [rpc EXCEPT ![t].at = "check_safety"]
    /\ UNCHANGED respond_result
    /\ UNCHANGED <<chapterVars, factoryVars, graphVars, memoryVars,
                   intentVars, engagementVars, socketVars, monitorVars, restVars>>

\* the call returns: the lock is released and the object is dropped
RespondReturn(t) ==
    /\ agent_locks' = [agent_locks EXCEPT ![rpc[t].agent] = "unused"]
    /\ rpc' = [rpc EXCEPT ![t] = NoRoleCall]

\* _check_safety: what validate_content returns, and is_safe False when it
\* raises
CheckSafetyMut(verdict) == verdict # "unsafe"
CheckSafety(verdict) == verdict = "safe"

\* the fixed lines of respond_to_message and _generate_response
Redirect == "sorry_cannot_respond_lets_talk_about_something_else"
FixedFallback == "let_me_think_how_to_say_it_better"
GenerationFallback == "i_would_like_to_respond_but_let_me_think"

\* _update_conversation_history: append, and keep the last 30 beyond 50
UpdateConversationHistory(n) == IF n + 1 > 50 THEN 30 ELSE n + 1

\* step 1: await self._check_safety(message); a message that is not safe is
\* refused before anything is written to the history
RespondCheckSafety(t) ==
    /\ rpc[t].at = "check_safety"
    /\ \E verdict \in SafetyVerdicts :
         IF ~CheckSafety(verdict)
         THEN /\ RespondReturn(t)
              /\ respond_result' =
                    [success |-> "false", response |-> Redirect,
                     message |-> verdict, checked |-> "none",
                     history_before |-> rpc[t].conversation_history,
                     conversation_history |-> rpc[t].conversation_history]
         ELSE /\ rpc' = [rpc EXCEPT ![t].at = "generate", ![t].message = verdict]
              /\ UNCHANGED <<agent_locks, respond_result>>
    /\ UNCHANGED <<chapterVars, factoryVars, graphVars, memoryVars,
                   intentVars, engagementVars, socketVars, monitorVars, restVars>>

\* _generate_response: the stripped completion, or its own fallback line
\* when the client raises
Completions == {"text", "raises"}

GenerateResponse(completion) ==
    IF completion = "raises" THEN GenerationFallback ELSE "generated_text"

\* step 5: content that is not safe is replaced by the fixed line
CheckedResponse(response_content, verdict) ==
    IF ~CheckSafety(verdict) THEN FixedFallback ELSE response_content

\* steps 2-6: emotion, context, generation, second safety check, history.
\* Every callee catches its own exceptions and _update_conversation_history
\* only appends, so the handler's own except branch is not taken.
RespondGenerate(t) ==
    /\ rpc[t].at = "generate"
    /\ RespondReturn(t)
    /\ \E completion \in Completions, verdict \in SafetyVerdicts :
         respond_result' =
            [success |-> "true",
             response |-> CheckedResponse(GenerateResponse(completion), verdict),
             message |-> rpc[t].message, checked |-> verdict,
             history_before |-> rpc[t].conversation_history,
             conversation_history |->
                UpdateConversationHistory(rpc[t].conversation_history)]
    /\ UNCHANGED <<chapterVars, factoryVars, graphVars, memoryVars,
                   intentVars, engagementVars, socketVars, monitorVars, restVars>>

\* tasks inside respond_to_message of an agent built for role id r
Responding(r) ==
    {t \in Tasks : rpc[t].role = r /\ rpc[t].at \in {"check_safety", "generate"}}

InitRoleCalls ==
    /\ agent_locks = [a \in AgentIds |-> "unused"]
    /\ rpc = [t \in Tasks |-> NoRoleCall]
    /\ respond_result = NoRespondResult

(***************************************************************************)
(* main.py: the /ws endpoint.  A text frame is given by what json.loads     *)
(* makes of it; the frames the handler sends to the client are recorded.    *)
(***************************************************************************)
TextFrames ==
    {"hello", "listen_detect", "listen_other", "other_type", "not_json",
     "not_object", "empty_text"}

\* frames json.loads or message.get fails on
MalformedFrames == {"not_json", "not_object"}

SuccessListen == [status |-> "success", type |-> "listen"]
ErrorStatus == [status |-> "error", type |-> "none"]
NoStatus == [status |-> "none", type |-> "none"]
ReturnedNone == [status |-> "None", type |-> "none"]

\* _handle_text_message: the status it returns and the frames it sends.
\* main.py binds neither protocol_handler nor websocket_manager, so the
\* hello branch raises NameError before send_json and ends in the generic
\* except branch; "listen" with another state falls off the function.
HandleTextMessage(frame) ==
    CASE frame = "hello" -> [status |-> ErrorStatus, sent |-> <<>>]
      [] frame = "listen_detect" -> [status |-> SuccessListen, sent |-> <<>>]
      [] frame = "listen_other" -> [status |-> ReturnedNone, sent |-> <<>>]
      [] frame = "other_type" -> [status |-> ErrorStatus, sent |-> <<>>]
      [] frame = "not_json" -> [status |-> ErrorStatus, sent |-> <<>>]
      [] frame = "not_object" -> [status |-> ErrorStatus, sent |-> <<>>]

NoSocket ==
    [state |-> "connecting", frames |-> 0, last |-> "none", status |-> NoStatus,
     sent |-> <<>>, after_malformed |-> FALSE]

\* await websocket.accept()
Accept ==
    /\ socket.state = "connecting"
    /\ socket' = [socket EXCEPT !.state = "open"]
    /\ UNCHANGED <<chapterVars, factoryVars, graphVars, memoryVars,
                   intentVars, engagementVars, roleVars, monitorVars, restVars>>

\* one turn of the receive loop on a text frame: message_data = data.get(
\* 'text') or data.get('bytes') is a str unless the text is empty
ReceiveText ==
    /\ socket.state = "open"
    /\ socket.frames < MaxFrames
    /\ \E frame \in TextFrames :
         LET handled == IF frame = "empty_text"
                        THEN [status |-> socket.status, sent |-> <<>>]
                        ELSE HandleTextMessage(frame)
         IN socket' = [socket EXCEPT
                          !.frames = @ + 1, !.last = frame,
                          !.status = handled.status, !.sent = handled.sent,
                          !.after_malformed =
                              socket.last \in MalformedFrames \/ @]
    /\ UNCHANGED <<chapterVars, factoryVars, graphVars, memoryVars,
                   intentVars, engagementVars, roleVars, monitorVars, restVars>>

\* a binary frame is logged only
ReceiveBytes ==
    /\ socket.state = "open"
    /\ socket.frames < MaxFrames
    /\ socket' = [socket EXCEPT !.frames = @ + 1, !.last = "bytes", !.sent = <<>>,
                                !.after_malformed =
                                    socket.last \in MalformedFrames \/ @]
    /\ UNCHANGED <<chapterVars, factoryVars, graphVars, memoryVars,
                   intentVars, engagementVars, roleVars, monitorVars, restVars>>

\* websocket.disconnect, or receive() raising WebSocketDisconnect
ReceiveDisconnect ==
    /\ socket.state = "open"
    /\ socket' = [socket EXCEPT !.state = "closed", !.last = "disconnect",
                                !.sent = <<>>]
    /\ UNCHANGED <<chapterVars, factoryVars, graphVars, memoryVars,
                   intentVars, engagementVars, roleVars, monitorVars, restVars>>

InitSocket == socket = NoSocket

(***************************************************************************)
(* services/resource_monitor.py: ResourceMonitor.  start_monitoring and     *)
(* stop_monitoring are called one after the other by one caller; every      *)
(* thread start_monitoring creates runs _monitor_loop.  A sample is named   *)
(* by its rank among the samples appended to monitor_data.                  *)
(***************************************************************************)
max_monitor_data == 1000
kept_monitor_data == 500

ThreadIds == 1..MaxThreads
NoThread == 0

\* the samples numbered n - k + 1 .. n, oldest first
MostRecent(n, k) == [i \in 1..k |-> n - k + i]

\* a buffer no trim has touched yet
Untrimmed(n) == MostRecent(n, n)

\* monitor_data[-500:]
LastKept(data) ==
    IF Len(data) <= kept_monitor_data THEN data
    ELSE SubSeq(data, Len(data) - kept_monitor_data + 1, Len(data))

\* threads that have entered _monitor_loop and not left it
LoopThreads == {th \in ThreadIds : loop_pc[th] \notin {"unborn", "dead"}}

NoMonitorCall == [op |-> "none", was_running |-> FALSE, noop |-> FALSE]

\* start_monitoring
StartMonitoring ==
    /\ caller = "idle"
    /\ IF running
       THEN /\ monitor_call' = [op |-> "start", was_running |-> TRUE, noop |-> TRUE]
            /\ UNCHANGED <<running, thread, next_thread, loop_pc>>
       ELSE /\ next_thread < MaxThreads
            /\ running' = TRUE
            /\ next_thread' = next_thread + 1
            /\ thread' = next_thread + 1
            /\ loop_pc' = [loop_pc EXCEPT ![next_thread + 1] = "while"]
            /\ monitor_call' = [op |-> "start", was_running |-> FALSE, noop |-> FALSE]
    /\ UNCHANGED <<caller, loop_cut, monitor_data, appended, sampled>>
    /\ UNCHANGED <<chapterVars, factoryVars, graphVars, memoryVars,
                   intentVars, engagementVars, roleVars, socketVars, restVars>>

\* stop_monitoring up to thread.join(timeout=5)
StopMonitoring ==
    /\ caller = "idle"
    /\ IF ~running
       THEN /\ monitor_call' = [op |-> "stop", was_running |-> FALSE, noop |-> TRUE]
            /\ UNCHANGED <<running, caller>>
       ELSE /\ running' = FALSE
            /\ caller' = IF thread # NoThread THEN "joining" ELSE "idle"
            /\ monitor_call' = [op |-> "stop", was_running |-> TRUE, noop |-> FALSE]
    /\ UNCHANGED <<thread, next_thread, loop_pc, loop_cut, monitor_data,
                   appended, sampled>>
    /\ UNCHANGED <<chapterVars, factoryVars, graphVars, memoryVars,
                   intentVars, engagementVars, roleVars, socketVars, restVars>>

\* thread.join(timeout=5) returns: the thread has ended, or five seconds have
\* passed while it samples (cpu_percent(interval=1)) and sleeps (interval)
JoinReturn ==
    /\ caller = "joining"
    /\ \/ loop_pc[thread] = "dead"
       \/ loop_pc[thread] \in {"sample", "limit", "store", "sleep"}
    /\ caller' = "idle"
    /\ UNCHANGED <<running, thread, next_thread, loop_pc, loop_cut, monitor_data,
                   appended, sampled, monitor_call>>
    /\ UNCHANGED <<chapterVars, factoryVars, graphVars, memoryVars,
                   intentVars, engagementVars, roleVars, socketVars, restVars>>

\* while self.running
LoopWhile(th) ==
    /\ loop_pc[th] = "while"
    /\ loop_pc' = [loop_pc EXCEPT ![th] = IF running THEN "sample" ELSE "dead"]
    /\ UNCHANGED <<running, thread, next_thread, caller, loop_cut, monitor_data,
                   appended, sampled, monitor_call>>
    /\ UNCHANGED <<chapterVars, factoryVars, graphVars, memoryVars,
                   intentVars, engagementVars, roleVars, socketVars, restVars>>

\* data = self.get_system_info(); if data: log it and append it.  The call
\* returns {} when psutil fails, and a failing log write goes to the except
\* branch: either way nothing is appended and the thread sleeps.
LoopSample(th) ==
    /\ loop_pc[th] = "sample"
    /\ sampled < MaxSampling
    /\ sampled' = sampled + 1
    /\ \E data \in BOOLEAN :
         IF data
         THEN /\ monitor_data' = Append(monitor_data, appended + 1)
              /\ appended' = appended + 1
              /\ loop_pc' = [loop_pc EXCEPT ![th] = "limit"]
         ELSE /\ loop_pc' = [loop_pc EXCEPT ![th] = "sleep"]
              /\ UNCHANGED <<monitor_data, appended>>
    /\ UNCHANGED <<running, thread, next_thread, caller, loop_cut, monitor_call>>
    /\ UNCHANGED <<chapterVars, factoryVars, graphVars, memoryVars,
                   intentVars, engagementVars, roleVars, socketVars, restVars>>

\* if len(self.monitor_data) > 1000: evaluate self.monitor_data[-500:]
LoopLimit(th) ==
    /\ loop_pc[th] = "limit"
    /\ IF Len(monitor_data) > max_monitor_data
       THEN /\ loop_cut' = [loop_cut EXCEPT ![th] = LastKept(monitor_data)]
            /\ loop_pc' = [loop_pc EXCEPT ![th] = "store"]
       ELSE /\ loop_pc' = [loop_pc EXCEPT ![th] = "sleep"]
            /\ UNCHANGED loop_cut
    /\ UNCHANGED <<running, thread, next_thread, caller, monitor_data, appended,
                   sampled, monitor_call>>
    /\ UNCHANGED <<chapterVars, factoryVars, graphVars, memoryVars,
                   intentVars, engagementVars, roleVars, socketVars, restVars>>

\* self.monitor_data = <the slice>
LoopStore(th) ==
    /\ loop_pc[th] = "store"
    /\ monitor_data' = loop_cut[th]
    /\ loop_cut' = [loop_cut EXCEPT ![th] = <<>>]
    /\ loop_pc' = [loop_pc EXCEPT ![th] = "sleep"]
    /\ UNCHANGED <<running, thread, next_thread, caller, appended, sampled,
                   monitor_call>>
    /\ UNCHANGED <<chapterVars, factoryVars, graphVars, memoryVars,
                   intentVars, engagementVars, roleVars, socketVars, restVars>>

\* time.sleep(self.interval) returns
LoopSleep(th) ==
    /\ loop_pc[th] = "sleep"
    /\ loop_pc' = [loop_pc EXCEPT ![th] = "while"]
    /\ UNCHANGED <<running, thread, next_thread, caller, loop_cut, monitor_data,
                   appended, sampled, monitor_call>>
    /\ UNCHANGED <<chapterVars, factoryVars, graphVars, memoryVars,
                   intentVars, engagementVars, roleVars, socketVars, restVars>>

\* ResourceMonitor.__init__ with n samples already in monitor_data
MonitorWith(n) ==
    /\ running = FALSE
    /\ thread = NoThread
    /\ next_thread = 0
    /\ loop_pc = [th \in ThreadIds |-> "unborn"]
    /\ loop_cut = [th \in ThreadIds |-> <<>>]
    /\ monitor_data = Untrimmed(n)
    /\ appended = n
    /\ sampled = 0
    /\ caller = "idle"
    /\ monitor_call = NoMonitorCall

\* a monitor started once whose thread sleeps after its n-th sample
MonitorRunning(n) ==
    /\ running = TRUE
    /\ thread = 1
    /\ next_thread = 1
    /\ loop_pc = [th \in ThreadIds |-> IF th = 1 THEN "sleep" ELSE "unborn"]
    /\ loop_cut = [th \in ThreadIds |-> <<>>]
    /\ monitor_data = Untrimmed(n)
    /\ appended = n
    /\ sampled = 0
    /\ caller = "idle"
    /\ monitor_call = [op |-> "start", was_running |-> FALSE, noop |-> FALSE]

InitMonitor == MonitorWith(0)

(***************************************************************************)
(* agents/world_agent.py: WorldAgent._match_world_type.  A description is   *)
(* a sequence of characters, each character a token.                        *)
(***************************************************************************)
WorldType ==
    <<"MAGIC_FOREST", "OCEAN_ADVENTURE", "SPACE_ADVENTURE", "DINOSAUR_WORLD",
      "PRINCESS_CASTLE", "ANIMAL_FARM", "CUSTOM">>

\* type_keywords, in the order the dict literal lists them
type_keywords ==
    << [world_type |-> "MAGIC_FOREST",
        keywords |-> << <<"mo", "fa">>, <<"sen", "lin">>, <<"jing", "ling">>,
                        <<"xian", "nv">>, <<"wu1", "shi1">> >>],
       [world_type |-> "OCEAN_ADVENTURE",
        keywords |-> << <<"hai", "yang">>, <<"hai", "di">>, <<"yu2">>,
                        <<"hai", "tun">>, <<"qian", "shui">> >>],
       [world_type |-> "SPACE_ADVENTURE",
        keywords |-> << <<"tai", "kong">>, <<"xing", "xing">>, <<"yu3", "zhou">>,
                        <<"wai", "xing", "ren">>, <<"xing", "qiu">> >>],
       [world_type |-> "DINOSAUR_WORLD",
        keywords |-> << <<"kong3", "long">>, <<"shi5", "qian2">>, <<"dan">>,
                        <<"yuan", "gu3">> >>],
       [world_type |-> "PRINCESS_CASTLE",
        keywords |-> << <<"gong", "zhu">>, <<"wang", "zi">>, <<"cheng", "bao">>,
                        <<"du", "jiao", "shou">>, <<"guo", "wang">> >>],
       [world_type |-> "ANIMAL_FARM",
        keywords |-> << <<"dong", "wu">>, <<"nong", "chang">>, <<"xiao", "ji">>,
                        <<"xiao", "zhu1">>, <<"xiao", "yang2">> >>] >>

\* one turn of the for loop: score > best_score
BetterScoreMut(score, best_score) == score >= best_score

BetterScore(score, best_score) == score > best_score

\* the for loop from entry i on, with best_type and best_score so far
RECURSIVE MatchLoop(_, _, _)
MatchLoop(i, desc_lower, best) ==
    IF i > Len(type_keywords) THEN best.type
    ELSE LET score == KeywordScore(type_keywords[i].keywords, desc_lower)
         IN MatchLoop(i + 1, desc_lower,
                      IF BetterScore(score, best.score)
                      THEN [type |-> type_keywords[i].world_type, score |-> score]
                      ELSE best)

\* _match_world_type(description, specified_type); every member of the str
\* enum WorldType is a non-empty string and so is true
MatchWorldType(description, specified_type) ==
    IF specified_type # "None" THEN specified_type
    ELSE MatchLoop(1, Lower(description), [type |-> "CUSTOM", score |-> 0])

WorldFragments ==
    { <<"mo", "fa">>, <<"sen", "lin">>, <<"hai", "yang">>, <<"yu2">>, <<"xing">>,
      <<"qiu">>, <<"guo", "wang">>, <<"zi">>, <<"dong", "wu">>, <<"A">> }

RECURSIVE Descriptions(_)
Descriptions(n) ==
    IF n = 0 THEN {<<>>}
    ELSE Descriptions(n - 1)
         \cup {t \o f : t \in Descriptions(n - 1), f \in WorldFragments}

SpecifiedTypes == Range(WorldType) \cup {"None"}

NoMatchCall ==
    [phase |-> "none", description |-> <<>>, specified_type |-> "None",
     result |-> "none"]

MatchWorldTypeCall ==
    /\ world_match.phase = "called"
    /\ world_match' =
           [world_match EXCEPT
               !.phase = "returned",
               !.result = MatchWorldType(world_match.description,
                                         world_match.specified_type)]
    /\ UNCHANGED <<priorVars, historyVars, listingVars, searchVars, constructionVars, finalVars>>

InitMatchCalls ==
    world_match \in {[NoMatchCall EXCEPT !.phase = "called", !.description = d,
                                        !.specified_type = s] :
                        d \in Descriptions(MaxDescription), s \in SpecifiedTypes}

(***************************************************************************)
(* api/langgraph_routes.py: GET /session/{session_id}/history.  The         *)
(* DatabaseService facade is read-back over the Session and Conversation    *)
(* rows; a row of Session is given by its is_active column.                 *)
(***************************************************************************)
NoRow == [exists |-> FALSE, is_active |-> "None"]
SessionRows ==
    {NoRow} \cup {[exists |-> TRUE, is_active |-> a] : a \in {"1", "0", "None"}}

Limits == {1, 2, 20, 100}
ConversationCounts == 0..MaxConversations

\* DatabaseService.get_session_by_id: the row, None, or a database error
GetSessionById(row, db) ==
    IF db = "raises" THEN [raised |-> TRUE, session |-> NoRow]
    ELSE [raised |-> FALSE, session |-> row]

\* DatabaseService.get_conversations_by_session: the rows of the session
GetConversationsBySession(nconv, db) ==
    IF db = "raises" THEN [raised |-> TRUE, conversations |-> 0]
    ELSE [raised |-> FALSE, conversations |-> nconv]

\* not session or not bool(session.is_active)
SessionUnusable(session) == ~session.exists \/ session.is_active # "1"

\* the except clauses: HTTPException is raised again, anything else is 500
ExceptClausesMut(exc) == 500

ExceptClauses(exc) == IF exc.kind = "HTTPException" THEN exc.status_code ELSE 500

NoHistory == [status |-> 0, total_conversations |-> -1]

\* get_session_history(session_id, limit, db)
GetSessionHistory(row, nconv, limit, lookup, fetch) ==
    LET found == GetSessionById(row, lookup)
        rows == GetConversationsBySession(nconv, fetch)
    IN IF found.raised
       THEN [NoHistory EXCEPT !.status = ExceptClauses([kind |-> "Exception",
                                                        status_code |-> 0])]
       ELSE IF SessionUnusable(found.session)
       THEN [NoHistory EXCEPT !.status = ExceptClauses([kind |-> "HTTPException",
                                                        status_code |-> 404])]
       ELSE IF rows.raised
       THEN [NoHistory EXCEPT !.status = ExceptClauses([kind |-> "Exception",
                                                        status_code |-> 0])]
       ELSE [status |-> 200,
             total_conversations |-> Min(rows.conversations, limit)]

NoHistoryCall ==
    [phase |-> "none", row |-> NoRow, conversations |-> 0, limit |-> 20,
     lookup |-> "ok", response |-> NoHistory]

GetSessionHistoryCall ==
    /\ history_call.phase = "called"
    /\ \E lookup \in DbOutcomes, fetch \in DbOutcomes :
         history_call' =
             [history_call EXCEPT
                 !.phase = "returned", !.lookup = lookup,
                 !.response = GetSessionHistory(history_call.row,
                                                history_call.conversations,
                                                history_call.limit, lookup, fetch)]
    /\ UNCHANGED <<priorVars, worldVars, listingVars, searchVars, constructionVars, finalVars>>

InitHistoryCalls ==
    history_call \in
        {[NoHistoryCall EXCEPT !.phase = "called", !.row = r, !.conversations = n,
                               !.limit = l] :
             r \in SessionRows, n \in ConversationCounts, l \in Limits}

InitMemory ==
    /\ memory_client \in {"none", "mem0"}
    /\ memory_cache = [k \in CacheKeys |-> NoEntry]
    /\ now = 0
    /\ mem_result = NoMemResult

InitGraph ==
    /\ active_story_sessions = [s \in SessionIds |-> NoSession]
    /\ run = [t \in Tasks |-> NoRun]
    /\ turn = NoTurn
    /\ http = NoHttp
    /\ world_result = NoWorldResult
    /\ follow = [s \in SessionIds |-> NoFollow]

(***************************************************************************)
(* Specifications                                                          *)
(***************************************************************************)
InitChapter ==
    /\ active_chapters = [c \in ChapterIds |-> NoChapter]
    /\ next_chapter = 0
    /\ chapter_lock = "free"
    /\ tpc = [t \in Tasks |-> "idle"]
    /\ targ = [t \in Tasks |-> NoArg]
    /\ last = NoResult
    /\ pair = NoPair

InitFactory ==
    /\ factory_roles = [r \in RoleIds |-> "none"]
    /\ role_instances = [r \in RoleIds |-> NoInstance]
    /\ role_configs = {}
    /\ factory_lock = "free"
    /\ factory_result = NoFactoryResult
    /\ role_listing = {}
    /\ next_role = 0

\* the calls checked on their own have not been made
InitSearch ==
    /\ cached_for = [k \in CacheKeys |-> NoRequest]
    /\ search_call = NoSearchCall
    /\ memory_stats = NoStatistics

\* a manager whose construction is over
InitConstructed ==
    /\ mem0_lib = [available |-> TRUE, enabled |-> TRUE]
    /\ init_stack = <<>>
    /\ collection_name = 0
    /\ init_attempts = <<>>

InitFinal == final_call = NoFinalCall

InitRest ==
    /\ world_match = NoMatchCall
    /\ history_call = NoHistoryCall
    /\ chapter_listing = NoListing
    /\ InitSearch
    /\ InitConstructed
    /\ InitFinal

InitServices ==
    /\ intent_call = NoIntentCall
    /\ engagement_call = NoEngagementCall
    /\ InitRoleCalls
    /\ InitSocket
    /\ InitMonitor
    /\ InitRest

Init == InitChapter /\ InitFactory /\ InitGraph /\ InitMemory /\ InitServices

\* the chapter manager, driven by two tasks
NextChapter ==
    \E t \in Tasks :
        \/ CreateChapter(t)
        \/ StartChapter(t)
        \/ PauseChapter(t)
        \/ ResumeChapter(t)
        \/ CompleteChapter(t)
        \/ ArchiveChapter(t)
        \/ AdvanceCall(t)
        \/ AdvanceEnter(t)
        \/ AdvanceBody(t)

SpecChapter == Init /\ [][NextChapter]_vars

\* the orchestrator, its endpoint and direct calls of the world agent and of
\* the store methods, driven by one task; end_story_session by any task
GraphTasks == {"t1"}

NextGraph ==
    \/ \E t \in GraphTasks :
        \/ ProcessMessage(t)
        \/ InputProcessor(t)
        \/ IntentRouter(t)
        \/ SafetyChecker(t)
        \/ EmotionAnalyzer(t)
        \/ ChatHandler(t)
        \/ StoryWorldBuilder(t)
        \/ StoryRoleManager(t)
        \/ StoryInteractive(t)
        \/ MemoryUpdater(t)
        \/ ResponseFormatter(t)
        \/ VoiceOutputProcessor(t)
        \/ ReturnEnvelope(t)
        \/ CreateWorld(t)
        \/ StoreMemory(t)
    \/ \E t \in Tasks : EndStorySession(t)

SpecGraph == Init /\ [][NextGraph]_vars

\* process_message calls of two tasks on one session id, with text messages
\* that are routed to story mode and pass the safety filter
StoryMessage(t) ==
    /\ ProcessMessage(t)
    /\ run'[t].node = "input_processor"
    /\ run'[t].via = "direct"
    /\ run'[t].input_type = "text"

StoryIntent(t) == IntentRouter(t) /\ run'[t].current_mode = "story"

SafeMessage(t) ==
    /\ SafetyChecker(t)
    /\ run'[t].safety_check = "safe"
    /\ ~run'[t].filter_raised

NextStorySessions ==
    \E t \in Tasks :
        \/ StoryMessage(t)
        \/ InputProcessor(t)
        \/ StoryIntent(t)
        \/ SafeMessage(t)
        \/ EmotionAnalyzer(t)
        \/ StoryWorldBuilder(t)
        \/ StoryRoleManager(t)
        \/ StoryInteractive(t)
        \/ MemoryUpdater(t)
        \/ ResponseFormatter(t)
        \/ ReturnEnvelope(t)
        \/ EndStorySession(t)

SpecStorySessions == Init /\ [][NextStorySessions]_vars

\* the memory manager and its clock
NextMemory ==
    \/ \E t \in Tasks : StoreMemory(t) \/ SearchMemory(t)
    \/ Tick

SpecMemory == Init /\ [][NextMemory]_vars

\* searches of several users, queries and filters through one manager
SearchTasks == {"t1"}

NextSearch == \E t \in SearchTasks : SearchRelevant(t)

SpecSearch == Init /\ [][NextSearch]_vars

\* the statistics of one user, read again and again within the cache TTL
NextStatistics == \E t \in SearchTasks : GetMemoryStatistics(t)

SpecStatistics == Init /\ [][NextStatistics]_vars

\* detect_intent applied to one content and one reply of the LLM
InitIntent ==
    InitChapter /\ InitFactory /\ InitGraph /\ InitMemory /\ InitIntentCalls
    /\ engagement_call = NoEngagementCall /\ InitRoleCalls
    /\ InitSocket /\ InitMonitor /\ InitRest

NextIntent == DetectIntent

SpecIntent == InitIntent /\ [][NextIntent]_vars

\* _calculate_engagement_score applied to one chapter, one list of role
\* responses, a short and a long action
InitEngagement ==
    InitChapter /\ InitFactory /\ InitGraph /\ InitMemory /\ InitEngagementCalls
    /\ intent_call = NoIntentCall /\ InitRoleCalls
    /\ InitSocket /\ InitMonitor /\ InitRest

NextEngagement == CalculateEngagementShort \/ CalculateEngagementLong

SpecEngagement == InitEngagement /\ [][NextEngagement]_vars

\* story turns of two tasks that address roles of the factory
NextRole ==
    \E t \in Tasks :
        \/ CreateRoleAgent(t)
        \/ TerminateRole(t)
        \/ StoryGetRole(t)
        \/ AcquireThreadLock(t)
        \/ RespondCheckSafety(t)
        \/ RespondGenerate(t)

SpecRole == Init /\ [][NextRole]_vars

\* the role factory over time, driven by one task
FactoryTasks == {"t1"}

\* create_role_agent, for the first MaxFactoryRoles roles
CreateFactoryRole(t) ==
    /\ next_role < MaxFactoryRoles
    /\ CreateRoleAgent(t)

\* create_default_roles: create_role_agent for each of the two default
\* configs, while ids remain
CreateDefaultRoles(t) ==
    /\ Free(t) /\ FactoryLockFree
    /\ next_role + Len(DefaultConfigs) <= MaxFactoryRoles
    /\ factory_roles' = RegisterAll(factory_roles, CreatedIds(Len(DefaultConfigs)))
    /\ TrackInstances
    /\ next_role' = next_role + Len(DefaultConfigs)
    /\ last' = Returned("create_default_roles", next_role + 1, "none", "ids", FALSE)
    /\ UNCHANGED <<active_chapters, next_chapter, chapter_lock, tpc, targ, pair,
                   factory_lock, factory_result, role_listing,
                   graphVars, memoryVars, serviceVars>>

\* story turns on the roles of the factory while time passes
NextStoryTurns ==
    \/ \E t \in FactoryTasks :
         \/ CreateFactoryRole(t)
         \/ TerminateRole(t)
         \/ GetRoleInfo(t)
         \/ StoryGetRole(t)
         \/ AcquireThreadLock(t)
         \/ RespondCheckSafety(t)
         \/ RespondGenerate(t)
    \/ Tick

SpecStoryTurns == Init /\ [][NextStoryTurns]_vars

\* the chapters of a story are created, run and listed by one task
NextListing ==
    \E t \in FactoryTasks :
        \/ CreateChapter(t)
        \/ StartChapter(t)
        \/ PauseChapter(t)
        \/ CompleteChapter(t)
        \/ GetChapterSummary(t)
        \/ ListStoryChapters(t)
        \/ ListStoryChaptersReturn(t)

SpecListing == Init /\ [][NextListing]_vars

\* the maintenance methods of the factory while time passes
NextMaintenance ==
    \/ \E t \in FactoryTasks :
         \/ CreateFactoryRole(t)
         \/ PauseRole(t)
         \/ ResumeRole(t)
         \/ TerminateRole(t)
         \/ GetRoleInfo(t)
         \/ CleanupInactiveRoles(t)
         \/ CreateDefaultRoles(t)
         \/ GetFactoryStatistics(t)
         \/ ListActiveRoles(t)
         \/ ListReturn(t)
    \/ Tick

SpecMaintenance == Init /\ [][NextMaintenance]_vars

\* the public methods of the three managers, called with known and unknown
\* ids; the roles are those create_chapter registers
ManagerTasks == {"t1"}

NextManagers ==
    \E t \in ManagerTasks :
        \/ CreateChapter(t)
        \/ StartChapter(t)
        \/ PauseChapter(t)
        \/ ResumeChapter(t)
        \/ CompleteChapter(t)
        \/ ArchiveChapter(t)
        \/ AdvanceCall(t)
        \/ AdvanceEnter(t)
        \/ AdvanceBody(t)
        \/ GetChapterSummary(t)
        \/ GetRole(t)
        \/ GetRoleInfo(t)
        \/ PauseRole(t)
        \/ ResumeRole(t)
        \/ TerminateRole(t)
        \/ GetSessionInfo(t)
        \/ EndStorySession(t)

SpecManagers == Init /\ [][NextManagers]_vars

\* one connection to /ws and the frames the client sends on it
NextSocket == Accept \/ ReceiveText \/ ReceiveBytes \/ ReceiveDisconnect

SpecSocket == Init /\ [][NextSocket]_vars

\* the resource monitor, taken up at construction or while it runs with
\* max_monitor_data - 2 samples in the buffer and its thread asleep
InitMonitoring ==
    /\ InitChapter /\ InitFactory /\ InitGraph /\ InitMemory
    /\ intent_call = NoIntentCall /\ engagement_call = NoEngagementCall
    /\ InitRoleCalls /\ InitSocket /\ InitRest
    /\ \/ MonitorWith(0)
       \/ MonitorRunning(max_monitor_data - 2)

NextMonitor ==
    \/ StartMonitoring
    \/ StopMonitoring
    \/ JoinReturn
    \/ \E th \in ThreadIds :
        \/ LoopWhile(th)
        \/ LoopSample(th)
        \/ LoopLimit(th)
        \/ LoopStore(th)
        \/ LoopSleep(th)

SpecMonitor == InitMonitoring /\ [][NextMonitor]_vars

\* what the specifications below share with Init
InitPrior ==
    /\ InitChapter /\ InitFactory /\ InitGraph /\ InitMemory
    /\ intent_call = NoIntentCall /\ engagement_call = NoEngagementCall
    /\ InitRoleCalls /\ InitSocket /\ InitMonitor

\* _match_world_type applied to one description and one specified type
InitWorldMatch ==
    /\ InitPrior /\ InitMatchCalls
    /\ history_call = NoHistoryCall /\ chapter_listing = NoListing /\ InitSearch
    /\ InitConstructed
    /\ InitFinal

NextWorldMatch == MatchWorldTypeCall

SpecWorldMatch == InitWorldMatch /\ [][NextWorldMatch]_vars

\* one history request against one state of the database
InitHistory ==
    /\ InitPrior /\ InitHistoryCalls
    /\ world_match = NoMatchCall /\ chapter_listing = NoListing /\ InitSearch
    /\ InitConstructed
    /\ InitFinal

NextHistory == GetSessionHistoryCall

SpecHistory == InitHistory /\ [][NextHistory]_vars

\* StoryMemoryManager() with any library and any settings
InitConstruction ==
    /\ InitPrior /\ memory_client = "none"
    /\ world_match = NoMatchCall /\ history_call = NoHistoryCall
    /\ chapter_listing = NoListing /\ InitSearch
    /\ mem0_lib \in [available : BOOLEAN, enabled : BOOLEAN]
    /\ init_stack = <<Frame("_init_memory_client")>>
    /\ collection_name = 0
    /\ init_attempts = <<>>
    /\ InitFinal

\* _determine_final_intent applied to one combination of its arguments
InitFinalIntent ==
    /\ InitPrior /\ InitFinalCalls
    /\ world_match = NoMatchCall /\ history_call = NoHistoryCall
    /\ chapter_listing = NoListing /\ InitSearch /\ InitConstructed

NextFinalIntent == DetermineFinalIntentCall

SpecFinalIntent == InitFinalIntent /\ [][NextFinalIntent]_vars

NextConstruction ==
    \/ InitMemoryClient
    \/ CleanAndRetry
    \/ CleanAndRetryReturn
    \/ InitMemoryOnlyClient

SpecConstruction == InitConstruction /\ [][NextConstruction]_vars

(***************************************************************************)
(* Claims about the chapter manager                                        *)
(***************************************************************************)
\* C3: start_chapter succeeds only from planning, pause_chapter only from
\* active, resume_chapter only from paused, complete_chapter only from active
\* or paused, archive_chapter only from completed; every other call (also on
\* an unknown chapter id) returns false and leaves the chapter unchanged.
C3_TransitionsGuarded ==
    /\ last.op = "start" => (last.ret = "true" <=> last.pre = "planning")
    /\ last.op = "pause" => (last.ret = "true" <=> last.pre = "active")
    /\ last.op = "resume" => (last.ret = "true" <=> last.pre = "paused")
    /\ last.op = "complete" => (last.ret = "true" <=> last.pre \in {"active", "paused"})
    /\ last.op = "archive" => (last.ret = "true" <=> last.pre = "completed")
    /\ last.op \in {"start", "pause", "resume", "complete", "archive"} =>
          /\ last.ret \in {"true", "false"}
          /\ last.ret = "false" => last.unchanged
          /\ last.ret = "true" =>
                Chapter(last.chapter).state =
                    CASE last.op = "start" -> "active"
                      [] last.op = "pause" -> "paused"
                      [] last.op = "resume" -> "active"
                      [] last.op = "complete" -> "completed"
                      [] last.op = "archive" -> "archived"

C3_Witness ==
    /\ last.op = "complete" /\ last.pre = "planning" /\ last.ret = "false"
    /\ Chapter(last.chapter).state = "planning"

\* C4 as stated: two overlapping advance_chapter calls with safe actions on
\* the same active chapter raise current_step by exactly 2.
C4_ExactlyTwo == pair.fin = 2 => pair.delta = 2

\* C4 amended: the two calls never hold the chapter lock together; when at
\* least two steps remain both succeed and current_step rises by 2; when one
\* step remains the first call completes the chapter, the second returns the
\* not-active failure, and current_step rises by 1.
C4_SerializedAdvance ==
    /\ Cardinality({t \in Tasks : tpc[t] = "adv_body"}) <= 1
    /\ pair.fin = 2 =>
          IF pair.base + 2 <= pair.total
          THEN pair.delta = 2 /\ pair.nsucc = 2
          ELSE pair.delta = 1 /\ pair.nsucc = 1

C4_Witness == pair.fin = 2 /\ pair.delta = 2 /\ pair.nsucc = 2

\* C5: an advance_chapter call on an active chapter whose action the safety
\* check marks unsafe returns the unsafe failure, changes neither step,
\* state nor engagement score, and fetches no role agent.
C5_UnsafeAdvanceRejected ==
    (last.op = "advance" /\ last.pre = "active" /\ last.verdict = "unsafe") =>
        /\ last.ret = "failure"
        /\ last.error = "unsafe"
        /\ last.unchanged
        /\ last.role_calls = 0

C5_Witness ==
    /\ last.op = "advance" /\ last.pre = "active" /\ last.verdict = "unsafe"
    /\ last.ret = "failure"
    /\ Chapter(last.chapter).state = "active"
    /\ Chapter(last.chapter).current_step = 1

(***************************************************************************)
(* Claims about the orchestrator, the world agent and the endpoint          *)
(***************************************************************************)
\* C1: a process_message run whose message the safety filter marks unsafe
\* executes none of emotion_analyzer, chat_handler, story_world_builder,
\* story_role_manager, story_interactive, memory_updater; it creates no
\* world, session or role, writes no memory entry, and returns the fixed
\* redirect line.
C1_UnsafeSkipsProcessing ==
    /\ \A t \in Tasks :
          run[t].safety_check = "unsafe" =>
              /\ run[t].visited \cap ProcessingNodes = {}
              /\ ~run[t].created
              /\ run[t].mem_calls = 0
    /\ turn.safety_check = "unsafe" =>
          /\ turn.visited \cap ProcessingNodes = {}
          /\ ~turn.created
          /\ turn.mem_calls = 0
          /\ turn.response = SafeResponse

C1_Witness ==
    /\ turn.safety_check = "unsafe" /\ turn.success
    /\ turn.mode = "story"
    /\ turn.response = SafeResponse
    /\ "response_formatter" \in turn.visited

\* C2 as stated: whenever safety_agent.validate_content rejects the
\* description, with or without a dangerous keyword in it, create_world
\* returns success=false with world=None and makes no generation call.
C2_RejectedNeverBuilt ==
    world_result.validate = "unsafe" =>
        /\ ~world_result.success
        /\ world_result.world = "none"
        /\ ~world_result.generated

\* C6: process_message always returns an envelope with a non-empty response
\* string; an exception escaping the run yields success=false with the
\* generic apology, and a run that reaches END yields success=true.
C6_AlwaysAnEnvelope ==
    turn.via # "none" =>
        /\ turn.response \notin {None, ""}
        /\ turn.raised => (~turn.success /\ turn.response = SystemApology)
        /\ ~turn.raised => turn.success

C6_Witness ==
    /\ turn.via = "direct" /\ turn.raised
    /\ ~turn.success /\ turn.response = SystemApology

\* C7: POST /chat answers 200 and stores exactly one Conversation row for
\* every turn whose database write succeeds, also when the orchestrator
\* reports failure (the body then carries the apology); it answers 500,
\* with no row stored, only when the database write fails.
C7_ChatStoresAndAnswers ==
    http.status # 0 =>
        /\ http.status \in {200, 500}
        /\ http.status = 200 <=> http.db = "ok"
        /\ http.status = 200 => (http.rows = 1 /\ http.response \notin {None, ""})
        /\ http.status = 500 => http.rows = 0
        /\ (~http.success /\ http.db = "ok") =>
              (http.status = 200 /\ http.response = SystemApology)

C7_Witness ==
    /\ http.status = 200 /\ ~http.success
    /\ http.rows = 1 /\ http.response = SystemApology

\* C8: with memory_client None every store_* call returns a placeholder id,
\* every search returns the empty list without a backing search, and every
\* process_message run that reaches END returns success=true, in chat and
\* in story mode.
C8_MemoryDisabledDegrades ==
    /\ (mem_result.op \in StoreMethods /\ mem_result.client = "none") =>
          mem_result.ret \in {"mem0_disabled", "error"}
    /\ (mem_result.op = "search" /\ mem_result.client = "none") =>
          (mem_result.result = <<>> /\ ~mem_result.backing /\ ~mem_result.hit)
    /\ (turn.via # "none" /\ turn.client = "none" /\ ~turn.raised) =>
          (turn.success /\ turn.mode \in InteractionMode)

C8_Witness ==
    /\ turn.client = "none" /\ turn.success
    /\ turn.mode = "story" /\ turn.created
    /\ turn.mem_calls = 3

C9_RepeatWithinTtlIsCached ==
    mem_result.op = "search" =>
        /\ mem_result.fresh =>
              /\ mem_result.hit
              /\ ~mem_result.backing
              /\ mem_result.result = mem_result.cached
        /\ (~mem_result.fresh /\ mem_result.client # "none") => mem_result.backing

(***************************************************************************)
(* Claims about the intent agent                                           *)
(***************************************************************************)
\* C11 as stated: for every content whose normalized text contains a wake
\* phrase, detect_intent returns intent story, whatever the keyword scores,
\* the entities and the label and confidence of the LLM classifier are.
C11_WakePhraseForcesStory ==
    (/\ intent_call.phase = "returned"
     /\ intent_call.content.is_str
     /\ CheckWakeupWords(PreprocessContent(intent_call.content.text))) =>
        intent_call.result.intent = "story"

\* C12 as stated: the confidence detect_intent returns lies in [0.1, 1.0]
\* for every content, every number of entities and every confidence the LLM
\* classifier reports, on the normal path and in the except branch.
C12_ConfidenceInRange ==
    intent_call.phase = "returned" =>
        /\ ~intent_call.result.confidence.nan
        /\ intent_call.result.confidence.v >= Tenths(1)
        /\ intent_call.result.confidence.v <= Tenths(10)

C14_ObjectivesAndSteps ==
    last.op = "create" =>
        LET ch == Chapter(last.chapter)
        IN  /\ last.chapter_type \in ChapterType
            /\ ch.state = "planning"
            /\ ch.current_step = 0
            /\ ch.total_steps = ch.objectives
            /\ ch.objectives = 1 + last.ngoals
            /\ ch.total_steps >= 1

C14_Witness ==
    /\ last.op = "create" /\ last.chapter_type = "conclusion"
    /\ last.ngoals = MaxGoals
    /\ Chapter(last.chapter).total_steps = 1 + MaxGoals

\* C15: every chapter starts in planning, and once a chapter is archived no
\* start, advance, pause, resume, complete or archive call changes its
\* state, its current_step or its engagement score.
C15_ArchivedIsTerminal ==
    [][\A c \in ChapterIds :
          /\ active_chapters[c].state = "none" =>
                active_chapters'[c].state \in {"none", "planning"}
          /\ active_chapters[c].state = "archived" =>
                /\ active_chapters'[c].state = "archived"
                /\ active_chapters'[c].current_step = active_chapters[c].current_step
                /\ active_chapters'[c].user_engagement_score =
                      active_chapters[c].user_engagement_score]_vars

C15_Witness ==
    /\ last.op = "advance" /\ last.pre = "archived" /\ last.ret = "failure"
    /\ Chapter(last.chapter).state = "archived"
    /\ Chapter(last.chapter).current_step > 0

C17_MissIsAValue ==
    last.pre = "none" =>
        /\ last.op \in {"start", "pause", "resume", "complete", "archive",
                        "pause_role", "resume_role", "terminate_role",
                        "end_story_session"} =>
              (last.ret = "false" /\ last.unchanged)
        /\ last.op \in {"get_chapter_summary", "get_role", "get_role_info",
                        "get_session_info"} =>
              (last.ret = "None" /\ last.unchanged)
        /\ last.op = "advance" =>
              (last.ret = "failure" /\ last.error = "not_active" /\ last.unchanged)

C17_Witness ==
    /\ last.op = "terminate_role" /\ last.pre = "none" /\ last.ret = "false"
    /\ \E r \in RoleIds : factory_roles[r] = "paused"
    /\ \E c \in ChapterIds : Exists(c)

(***************************************************************************)
(* Claims about the /ws endpoint                                           *)
(***************************************************************************)
\* C18: every inbound text frame is answered with a frame sent to the
\* client: a success acknowledgement for listen/detect, a generic error status
\* for another type and for text that does not parse; the connection stays
\* open after a malformed frame.
C18_EveryTextFrameAnswered ==
    /\ socket.last \in TextFrames \ {"empty_text"} => Len(socket.sent) >= 1
    /\ socket.last = "listen_detect" => socket.sent = <<SuccessListen>>
    /\ socket.last \in {"other_type"} \cup MalformedFrames =>
           socket.sent = <<ErrorStatus>>
    /\ socket.last \in MalformedFrames => socket.state = "open"

(***************************************************************************)
(* Claims about the resource monitor                                       *)
(***************************************************************************)
\* C19: start_monitoring while running and stop_monitoring while stopped
\* change nothing, and once a start or stop call has returned at most one
\* thread executes the monitor loop.
C19_AtMostOneSamplingThread ==
    /\ monitor_call.noop =>
           \/ monitor_call.op = "start" /\ monitor_call.was_running
           \/ monitor_call.op = "stop" /\ ~monitor_call.was_running
    /\ caller = "idle" => Cardinality(LoopThreads) <= 1

\* C20: a thread that completes an iteration of the monitor loop in which it
\* appended a sample leaves at most 1000 samples in the buffer, and a thread
\* that cuts the buffer leaves exactly the 500 samples appended last, oldest
\* first.
C20_BufferCapped ==
    [][\A th \in ThreadIds :
          /\ (loop_pc[th] \in {"limit", "store"} /\ loop_pc'[th] = "sleep")
                 => Len(monitor_data') <= max_monitor_data
          /\ (loop_pc[th] = "store" /\ loop_pc'[th] = "sleep")
                 => monitor_data' = MostRecent(appended', kept_monitor_data)]_vars

(***************************************************************************)
(* Claims about the world agent                                            *)
(***************************************************************************)
\* C21: _match_world_type returns the specified type when one is given;
\* otherwise the template with the most keywords found in the description,
\* the first such template in declaration order, and CUSTOM when no keyword
\* of any template is found.
C21_MatchWorldType ==
    world_match.phase = "returned" =>
        LET desc == Lower(world_match.description)
            Hits(i) == KeywordScore(type_keywords[i].keywords, desc)
            Templates == 1..Len(type_keywords)
        IN IF world_match.specified_type # "None"
           THEN world_match.result = world_match.specified_type
           ELSE IF \A i \in Templates : Hits(i) = 0
                THEN world_match.result = "CUSTOM"
                ELSE \E i \in Templates :
                        /\ world_match.result = type_keywords[i].world_type
                        /\ \A j \in Templates : Hits(j) <= Hits(i)
                        /\ \A j \in Templates : j < i => Hits(j) < Hits(i)

\* a tie between two templates, none specified
C21_Witness ==
    /\ world_match.phase = "returned"
    /\ world_match.specified_type = "None"
    /\ world_match.result = "OCEAN_ADVENTURE"
    /\ KeywordScore(type_keywords[6].keywords, world_match.description) = 1
    /\ KeywordScore(type_keywords[2].keywords, world_match.description) = 1

(***************************************************************************)
(* Claims about the session history endpoint                               *)
(***************************************************************************)
\* C22: a history request for a session the lookup does not find, or finds
\* inactive, is answered with 404, and no request for a missing or inactive
\* session is answered with a history.
C22_MissingSessionIs404 ==
    history_call.phase = "returned" /\ SessionUnusable(history_call.row) =>
        /\ history_call.lookup = "ok" => history_call.response.status = 404
        /\ history_call.response.status # 200
        /\ history_call.response.total_conversations = -1

\* an inactive session with conversations has been asked for
C22_Witness ==
    /\ history_call.phase = "returned"
    /\ history_call.row.exists
    /\ history_call.row.is_active = "0"
    /\ history_call.conversations > 0
    /\ history_call.response.status = 404

(***************************************************************************)
(* Claims about the order of the graph                                     *)
(***************************************************************************)
\* C23: a run in which world creation failed has executed neither
\* story_role_manager nor story_interactive, and process_message returns the
\* apology of story_world_builder.
C23_FailedWorldSkipsStoryNodes ==
    turn.world_failed =>
        /\ "story_role_manager" \notin turn.visited
        /\ "story_interactive" \notin turn.visited
        /\ turn.response = WorldFailed

\* the orders in which a run may execute the nodes
C24_Handlers ==
    { <<"chat_handler">>,
      <<"story_world_builder", "story_role_manager", "story_interactive">> }

C24_Orders(input_type) ==
    LET first == <<"input_processor", "intent_router", "safety_checker">>
        voice == IF input_type = "voice" THEN <<"voice_output_processor">> ELSE <<>>
    IN {first \o <<"response_formatter">> \o voice}
       \cup {first \o <<"emotion_analyzer">> \o h
                   \o <<"memory_updater", "response_formatter">> \o voice :
                h \in C24_Handlers}

C24_IsPrefix(p, q) == Len(p) <= Len(q) /\ SubSeq(q, 1, Len(p)) = p

\* C24: a run executes the nodes in one of the orders of the graph, each node
\* at most once, it can always take its next step until it has returned, and
\* what it has executed when it returns is a whole order, with
\* voice_output_processor last exactly when the input type is voice.
C24_NodesInOrder ==
    /\ \A t \in GraphTasks :
         run[t].node # "idle" =>
             /\ \E q \in C24_Orders(run[t].input_type) :
                    /\ C24_IsPrefix(run[t].path, q)
                    /\ run[t].node = IF Len(run[t].path) < Len(q)
                                     THEN q[Len(run[t].path) + 1] ELSE "__end__"
             /\ ENABLED (\/ InputProcessor(t) \/ IntentRouter(t) \/ SafetyChecker(t)
                         \/ EmotionAnalyzer(t) \/ ChatHandler(t)
                         \/ StoryWorldBuilder(t) \/ StoryRoleManager(t)
                         \/ StoryInteractive(t) \/ MemoryUpdater(t)
                         \/ ResponseFormatter(t) \/ VoiceOutputProcessor(t)
                         \/ ReturnEnvelope(t))
    /\ turn.success => turn.path \in C24_Orders(turn.input_type)

\* a voice story run has returned
C24_Witness ==
    /\ turn.success
    /\ turn.input_type = "voice"
    /\ Len(turn.path) = 10
    /\ turn.path[10] = "voice_output_processor"

\* C25: when the safety filter raises, safety_check is recorded as safe and
\* the run goes on to emotion_analyzer and the chat or story handler, and is
\* not answered with the redirect.
C25_FilterFailureIsSafe ==
    /\ \A t \in GraphTasks :
         run[t].filter_raised =>
             /\ run[t].safety_check = "safe"
             /\ run[t].node = "emotion_analyzer" \/ run[t].path[4] = "emotion_analyzer"
    /\ turn.success /\ turn.filter_raised =>
         /\ turn.safety_check = "safe"
         /\ "emotion_analyzer" \in turn.visited
         /\ turn.visited \cap {"chat_handler", "story_world_builder"} # {}
         /\ turn.response # SafeResponse

\* a run whose filter raised has been answered by the chat handler
C25_Witness ==
    /\ turn.success
    /\ turn.filter_raised
    /\ "chat_handler" \in turn.visited
    /\ turn.response = "chat_reply"

\* C26: a response returned with success = true is text the safety agent
\* accepted or the fixed fallback line; a message the safety agent rejects,
\* or whose check raises, gives success = false with the fixed redirect and
\* leaves the conversation history as it was
C26_RespondIsChecked ==
    /\ respond_result.success = "true" =>
          \/ respond_result.response = FixedFallback
          \/ /\ respond_result.checked = "safe"
             /\ respond_result.response \in {"generated_text", GenerationFallback}
    /\ respond_result.message \in {"unsafe", "raises"} =>
          /\ respond_result.success = "false"
          /\ respond_result.response = Redirect
          /\ respond_result.conversation_history = respond_result.history_before
    /\ respond_result.success = "true" =>
          respond_result.conversation_history = respond_result.history_before + 1

\* a call whose safety check on the message raised has returned the redirect
C26_Witness ==
    /\ respond_result.message = "raises"
    /\ respond_result.success = "false"
    /\ respond_result.response = Redirect

\* C27: no conversational state carries across get_role calls: the object a
\* story turn holds was built with an empty history and a role id that is no
\* registered id, a registered instance keeps the empty history and the
\* last_activity it was created with, and get_role_info reports
\* total_conversations = 0
C27_NoStateCarriesOver ==
    /\ \A t \in Tasks :
          rpc[t].at = "has_agent" =>
              /\ rpc[t].conversation_history = 0
              /\ rpc[t].role_id \notin RoleIds
              /\ rpc[t].role_id # rpc[t].role
    /\ \A r \in RegisteredIds :
          /\ role_instances[r].conversation_history = 0
          /\ role_instances[r].last_activity = role_instances[r].created_at
    /\ factory_result.op = "get_role_info" =>
          factory_result.total_conversations = 0

\* time has passed and a story turn on the only role ever created has been
\* answered, get_role_info on it has returned, and a further turn on it has
\* been handed its object
C27_Witness ==
    /\ next_role = 1
    /\ RegisteredIds = {1}
    /\ now > role_instances[1].created_at
    /\ respond_result.success = "true"
    /\ factory_result.op = "get_role_info"
    /\ factory_result.role = 1
    /\ \E t \in Tasks : rpc[t].at = "has_agent" /\ rpc[t].role = 1

\* C28: when cleanup_inactive_roles returns n, n is the number of registered
\* roles whose last_activity is older than the threshold, exactly those have
\* left the tables, and every other role is still registered
C28_CleanupRemovesInactive ==
    factory_result.op = "cleanup_inactive_roles" =>
        /\ factory_result.count = Cardinality(factory_result.inactive)
        /\ factory_result.after = factory_result.before \ factory_result.inactive

\* C30: a list_active_roles call that holds the factory lock can always take
\* its next step, asking for the next info or returning and releasing the
\* lock, and what it returns has one info per role it listed
C30_ListActiveRolesProceeds ==
    /\ \A t \in Tasks :
          tpc[t] = "list_roles" => ENABLED (GetRoleInfo(t) \/ ListReturn(t))
    /\ \A t \in Tasks : tpc[t] = "list_roles" => factory_lock = t

\* C29: a list_story_chapters call that holds the manager lock can always
\* take its next step, asking for the next summary or returning and
\* releasing the lock; it returns one summary per chapter of the story
C29_ListStoryChaptersProceeds ==
    /\ \A t \in Tasks :
          tpc[t] = "list_chapters" =>
              ENABLED (GetChapterSummary(t) \/ ListStoryChaptersReturn(t))
    /\ chapter_listing.at = "returned" => chapter_lock = "free"

\* C31: in every step of any interleaving of process_message calls on one
\* session id, a session that has a StorySession keeps it as it is until
\* end_story_session removes it, a run creates a world only while the
\* session has none, and roles are registered only together with a new
\* StorySession, which then holds exactly the pair of default roles
C31_Step ==
    /\ \A s \in SessionIds :
          Session(s).exists =>
              active_story_sessions'[s] \in {active_story_sessions[s], NoSession}
    /\ \A t \in Tasks :
          (run'[t].created /\ ~run[t].created) =>
              /\ ~Session(run[t].session).exists
              /\ active_story_sessions'[run[t].session].exists
    /\ \A s \in SessionIds :
          (~Session(s).exists /\ active_story_sessions'[s].exists) =>
              /\ Len(active_story_sessions'[s].active_roles) = Len(DefaultConfigs)
              /\ \A r \in RoleIds :
                    (factory_roles[r] = "none" /\ factory_roles'[r] # "none")
                        <=> r \in Range(active_story_sessions'[s].active_roles)
    /\ (\E r \in RoleIds : factory_roles[r] = "none" /\ factory_roles'[r] # "none") =>
          \E s \in SessionIds :
              ~Session(s).exists /\ active_story_sessions'[s].exists

C31_OneWorldPerSession == [][C31_Step]_vars

\* two runs on the same session are past story_world_builder at once: one
\* created the world, the other found the StorySession and created nothing
C31_Witness ==
    \E t, u \in Tasks :
        /\ t # u
        /\ run[t].session = run[u].session
        /\ Session(run[t].session).exists
        /\ run[t].created
        /\ "story_world_builder" \in run[u].visited
        /\ ~run[u].created

\* C32: whenever a chapter is in state completed, none of the role ids in its
\* progress.active_roles is still registered in the role factory
C32_CompletedHasNoRoles ==
    \A c \in ChapterIds :
        Chapter(c).state = "completed" =>
            \A r \in Range(Chapter(c).active_roles) : factory_roles[r] = "none"

\* C33: a successful advance_chapter increments current_step by 1 unless it
\* already equals total_steps, and completes the chapter exactly when, after
\* the increment, current_step >= total_steps or the engagement score stored
\* before the call is > 0.8; otherwise the chapter stays active, and the
\* score is recomputed from the incremented step
C33_Step ==
    \A t \in Tasks :
        (tpc[t] = "adv_body" /\ tpc'[t] = "idle") =>
            LET c == targ[t].chapter
                before == active_chapters[c]
                after == active_chapters'[c]
                done == \/ after.current_step >= before.total_steps
                        \/ before.user_engagement_score > (8 * ScoreScale) \div 10
            IN /\ last'.ret = "success"
               /\ after.current_step =
                     IF before.current_step = before.total_steps
                     THEN before.current_step ELSE before.current_step + 1
               /\ after.total_steps = before.total_steps
               /\ after.state = IF done THEN "completed" ELSE "active"
               /\ \E long \in BOOLEAN :
                     after.user_engagement_score =
                        EngagementScore(after, long, 0, 0)

C33_AdvanceStepsAndCompletes == [][C33_Step]_vars

\* one successful advance has left a chapter active below its last step and
\* a later one has completed it at total_steps
C33_Witness ==
    /\ last.op = "advance" /\ last.ret = "success"
    /\ Chapter(last.chapter).state = "completed"
    /\ Chapter(last.chapter).total_steps >= 2
    /\ Chapter(last.chapter).current_step = Chapter(last.chapter).total_steps

\* C34: a successful advance_chapter has called interact once on the agent
\* of every role of progress.active_roles that is registered in the factory,
\* and role_responses holds at most one entry per such agent
C34_InteractOncePerRole ==
    (last.op = "advance" /\ last.ret = "success") =>
        /\ last.interact_calls = last.agents
        /\ last.role_responses <= last.interact_calls

\* C35: after any sequence of factory operations the instance table and the
\* config table have the same keys, no registered instance is in state
\* terminated, and the per-state counts of get_factory_statistics sum to
\* total_roles
C35_FactoryTablesAgree ==
    /\ role_configs = {r \in RoleIds : factory_roles[r] # "none"}
    /\ \A r \in RoleIds : factory_roles[r] # "terminated"
    /\ factory_result.op = "get_factory_statistics" =>
          factory_result.count =
              factory_result.state_distribution["created"]
              + factory_result.state_distribution["active"]
              + factory_result.state_distribution["paused"]
              + factory_result.state_distribution["terminated"]

\* the statistics were taken with one role paused after another had been
\* terminated
C35_Witness ==
    /\ factory_result.op = "get_factory_statistics"
    /\ factory_result.count = 1
    /\ factory_result.state_distribution["paused"] = 1
    /\ next_role = MaxFactoryRoles
    /\ Cardinality(role_configs) = 1

\* C36: a list served from the cache by search_relevant_memories was cached
\* for the same user, query, story and memory-type filter as the request
C36_CacheServesOwnRequest ==
    search_call.hit => search_call.cached_for = search_call.request

\* C37: with a backing store that answers, get_memory_statistics issues one
\* search per memory type and reports for each type the number of memories
\* the search filtered on that type returned
C37_StatisticsCountPerType ==
    memory_stats.client = "mem0"
        => /\ memory_stats.searches = Len(MemoryType)
           /\ memory_stats.user_memories = memory_stats.found

\* C38: while a StoryMemoryManager is constructed the durable client is tried
\* under the configured collection name and then at most once under
\* <name>_v2, never under a name that carries the suffix twice
C38_RetriesOnceUnderV2 ==
    /\ \A i \in 1..Len(init_attempts) : init_attempts[i] <= 1
    /\ Cardinality({i \in 1..Len(init_attempts) : init_attempts[i] >= 1}) <= 1

\* C40: the session_id in a POST /chat response is the id of the session the
\* orchestrator ran the turn under, also when the client sent none
C40_ReturnedSessionIsUsed ==
    http.status = 200 => http.session_id = http.used

\* C39: _determine_final_intent returns the LLM label when its confidence is
\* at least 0.8 and the label is chat or story; else story when a wake word
\* was detected; else story when the entities hold story_type:mo-fa,
\* story_type:tai-kong or story_intention; else chat when they hold
\* chat_intention; else the keyword-vote result
C39_FinalIntentPrecedence ==
    final_call.phase = "returned" =>
        LET c == final_call
            conf == c.ai_analysis.confidence
            trusted == /\ ~conf.nan /\ conf.v >= Tenths(8)
                       /\ c.ai_analysis.primary_intent \in {"chat", "story"}
            has(e) == \E i \in 1..Len(c.entities) : c.entities[i] = e
            story_entity == \/ has(StoryTypeTag(<<"mo", "fa">>))
                            \/ has(StoryTypeTag(<<"tai", "kong">>))
                            \/ has(StoryIntention)
        IN /\ trusted => c.result = c.ai_analysis.primary_intent
           /\ (~trusted /\ c.wakeup_detected) => c.result = "story"
           /\ (~trusted /\ ~c.wakeup_detected /\ story_entity) => c.result = "story"
           /\ (~trusted /\ ~c.wakeup_detected /\ ~story_entity /\ has(ChatIntention))
                 => c.result = "chat"
           /\ (~trusted /\ ~c.wakeup_detected /\ ~story_entity /\ ~has(ChatIntention))
                 => c.result = c.keyword_intent

\* a trusted chat label wins over a wake word and a story entity
C39_Witness ==
    /\ final_call.phase = "returned"
    /\ final_call.ai_analysis = [primary_intent |-> "chat", confidence |-> Num(Tenths(8))]
    /\ final_call.wakeup_detected
    /\ final_call.entities = <<StoryIntention>>
    /\ final_call.keyword_intent = "story"
    /\ final_call.result = "chat"

=============================================================================
